---------------------------- MODULE Spec2Model ----------------------------
(***************************************************************************)
(* Retrieval Scoring & Self-Correcting Evaluation Engine (VivBot backend). *)
(*                                                                         *)
(* One state machine per component of the engine, all over the same        *)
(* variables; a component that is not running keeps its variables at       *)
(* their idle values:                                                      *)
(*   SpecBatch             BatchEvaluator.run_batch_experiment             *)
(*   SpecCritique(Fair)    the critique loop (run_critique)                *)
(*   SpecFaith             calculate_faithfulness_metrics                  *)
(*   SpecQuality           calculate_retrieval_quality_metrics             *)
(*   SpecRanker            get_chunks_for_all_methods                      *)
(*   SpecCounterfactual    run_counterfactual_analysis                     *)
(*   SpecInsights          generate_insights                               *)
(*                                                                         *)
(* Python values: None is the empty tuple; an optional list argument is    *)
(* NoArg (None) or Some(list); names are strings or tagged tuples.         *)
(***************************************************************************)
EXTENDS Integers, Sequences, FiniteSets, TLC

\* ------------------------------------------------------------------ bounds
MaxListLen == 2        \* longest list given for one batch dimension
MaxRuns == 6           \* largest cartesian product a modelled batch drives
NumAnswers == 3        \* distinct answers the answer model may give
MaxScore == 1          \* critic scores range over 0..MaxScore
MaxRoundsPayload == 3  \* largest max_rounds a payload asks for
LimbBits == 16         \* bits in one limb of a float's binary expansion
FracLimbs == 4         \* limbs kept below the binary point of a float
MaxShortAnswer == 2    \* pieces in the longest answer of arbitrary pieces
MaxSentences == 80     \* sentences in the longest answer
MaxRepeated == 1       \* most sentences of a long answer that repeat the chunk
MaxWords == 80         \* words in the longest chunk text
MaxChunks == 3         \* chunks in the longest retrieved list, and in the store
MaxK == 3              \* largest k a ranking is asked for
MaxOriginal == 3       \* chunks in the longest list a counterfactual is run on
MaxAnswerWords == 52   \* words in the longest answer insights are asked for
MaxSimilarChunks == 4   \* chunks in the longest list of near-duplicate chunks

\* --------------------------------------------------------- Python helpers
None == <<>>
NoArg == <<>>
Some(x) == <<x>>
IsNone(o) == o = <<>>
Min(a, b) == IF a <= b THEN a ELSE b
Max(a, b) == IF a >= b THEN a ELSE b
Abs(a) == IF a < 0 THEN -a ELSE a
Range(s) == { s[i] : i \in DOMAIN s }

\* dict.get(key, default)
DictGet(d, key, default) == IF key \in DOMAIN d THEN d[key] ELSE default

\* Python evaluates the arguments of a call once, before the call: Call_n(f,
\* ...) is f of the values of the arguments
Call1(f(_), a) == CHOOSE r \in { f(x) : x \in { a } } : TRUE
Call2(f(_, _), a, b) == CHOOSE r \in { f(x, y) : x \in { a }, y \in { b } } : TRUE
Call3(f(_, _, _), a, b, c) == CHOOSE r \in { f(x, y, z) : x \in { a }, y \in { b }, z \in { c } } : TRUE

VARIABLES
    \* ---- BatchEvaluator.run_batch_experiment
    b_pc,                 \* "idle" | "loop" | "summarize" | "returned" | "raised"
    questions,            \* the five lists driving the cartesian product
    embedding_models,
    similarity_methods,
    top_k_values,
    operations,
    total_runs,
    run_count,
    b_pos,                \* the five loop indices (1-based), outermost first
    results,              \* the list of run records, in append order
    experiment_metadata,  \* the returned metadata (None until returned)
    csv_rows,             \* the rows export_to_csv wrote, None before an export
    \* ---- the critique loop (run_critique)
    cr_state,             \* "Idle" | "Draft" | "Critiqued" | "Improving" | "Terminal"
    self_correct,
    max_rounds,
    rounds,               \* the ordered round history of the session
    cr_prompt,            \* the prompt the next draft is generated from
    cr_draft,             \* the draft answer not yet critiqued (None if none)
    cr_answer,            \* the session's answer (None until Terminal)
    \* ---- calculate_faithfulness_metrics
    fm_pc,                \* "idle" | "called" | "returned"
    fm_answer,            \* the answer, as the pieces the sentence tokenizer cuts
    fm_chunks,            \* retrieved_chunks
    fm_model,             \* what the sentence transformer does in this call
    fm_metrics,           \* the returned dict (None until returned)
    \* ---- calculate_retrieval_quality_metrics
    rq_pc,                \* "idle" | "returned"
    rq_chunks,            \* retrieved_chunks
    rq_metrics,           \* the returned dict (None until returned)
    \* ---- the vector store and get_chunks_for_all_methods
    store,                \* the records of the vector store, in file order
    rk_pc,                \* "idle" | "returned"
    rk_args,              \* the arguments of the call (None until returned)
    rk_result,            \* the returned dict (None until returned)
    \* ---- run_counterfactual_analysis
    cf_pc,                \* "idle" | "returned" | "raised"
    cf_args,              \* the arguments of the last call (None before it)
    cf_prev,              \* the chunks and the type of the call whose chunks_used were fed back
    cf_llm_calls,         \* the contexts of the prompts the call sent to the language model, in order
    cf_caller_chunks,     \* the caller's original_chunks list as the call left it
    cf_chunks,            \* counterfactual_chunks of the call, None if it never built them
    cf_result,            \* what the last call returned or raised
    \* ---- generate_insights
    in_pc,                \* "idle" | "returned"
    in_args,              \* the question, the answer and what the provider did
    in_result             \* the returned dict (None until returned)

batchVars == << b_pc, questions, embedding_models, similarity_methods,
                top_k_values, operations, total_runs, run_count, b_pos,
                results, experiment_metadata, csv_rows >>

critiqueVars == << cr_state, self_correct, max_rounds, rounds, cr_prompt,
                   cr_draft, cr_answer >>

faithVars == << fm_pc, fm_answer, fm_chunks, fm_model, fm_metrics >>

qualityVars == << rq_pc, rq_chunks, rq_metrics >>

rankVars == << store, rk_pc, rk_args, rk_result >>

counterfactualVars == << cf_pc, cf_args, cf_prev, cf_result, cf_llm_calls, cf_caller_chunks, cf_chunks >>

insightsVars == << in_pc, in_args, in_result >>

vars == << batchVars, critiqueVars, faithVars, qualityVars, rankVars, counterfactualVars, insightsVars >>

\* what a step of one component leaves alone
outsideBatch == << critiqueVars, faithVars, qualityVars, rankVars, counterfactualVars, insightsVars >>
outsideCritique == << batchVars, faithVars, qualityVars, rankVars, counterfactualVars, insightsVars >>
outsideFaith == << batchVars, critiqueVars, qualityVars, rankVars, counterfactualVars, insightsVars >>
outsideQuality == << batchVars, critiqueVars, faithVars, rankVars, counterfactualVars, insightsVars >>
outsideRank == << batchVars, critiqueVars, faithVars, qualityVars, counterfactualVars, insightsVars >>
outsideCounterfactual == << batchVars, critiqueVars, faithVars, qualityVars, rankVars, insightsVars >>
outsideInsights == << batchVars, critiqueVars, faithVars, qualityVars, rankVars, counterfactualVars >>

\* =====================================================================
\* Python float arithmetic (IEEE 754 binary64, round to nearest, ties to
\* even) on the values the metrics use: non-negative numbers held exactly
\* as a sequence of limbs of LimbBits bits, most significant first; limb 1
\* is the integer part and FracLimbs limbs follow the binary point.  Every
\* double the metrics produce within the bounds of the model has its 53
\* significant bits inside this window.
\* =====================================================================
MantissaBits == 53
NumLimbs == 1 + FracLimbs
Width == NumLimbs * LimbBits
Base == 2 ^ LimbBits
ZeroFloat == [j \in 1..NumLimbs |-> 0]
OneFloat == [j \in 1..NumLimbs |-> IF j = 1 THEN 1 ELSE 0]

\* bit i of the window, bit 1 being the top bit of limb 1
Bit(x, i) ==
    LET j == (i - 1) \div LimbBits + 1
    IN  (x[j] \div 2 ^ (j * LimbBits - i)) % 2

\* exact a + b and a - b (a >= b), from the least significant limb
RECURSIVE AddLimbs(_, _, _, _, _)
AddLimbs(a, b, j, carry, acc) ==
    IF j = 1 THEN << a[1] + b[1] + carry >> \o acc
    ELSE LET t == a[j] + b[j] + carry
         IN  AddLimbs(a, b, j - 1, t \div Base, << t % Base >> \o acc)

RECURSIVE SubLimbs(_, _, _, _, _)
SubLimbs(a, b, j, borrow, acc) ==
    IF j = 1 THEN << a[1] - b[1] - borrow >> \o acc
    ELSE LET t == a[j] - b[j] - borrow
         IN  SubLimbs(a, b, j - 1, IF t < 0 THEN 1 ELSE 0,
                      << IF t < 0 THEN t + Base ELSE t >> \o acc)

\* the window cut after bit last, plus one unit at bit last when up
RoundAt(x, last, up) ==
    LET Low(j) == j * LimbBits - last
        cut == [j \in 1..NumLimbs |->
                   IF Low(j) <= 0 THEN x[j]
                   ELSE IF Low(j) >= LimbBits THEN 0
                   ELSE (x[j] \div 2 ^ (Low(j))) * 2 ^ (Low(j))]
        unit == [j \in 1..NumLimbs |->
                   IF Low(j) >= 0 /\ Low(j) < LimbBits THEN 2 ^ (Low(j)) ELSE 0]
    IN  IF up THEN AddLimbs(cut, unit, NumLimbs, 0, << >>) ELSE cut

\* the double nearest to the exact value x + (a non-zero rest below the
\* window when sticky)
Nearest(x, sticky) ==
    LET j == CHOOSE l \in 1..NumLimbs : x[l] # 0 /\ \A k \in 1..(l - 1) : x[k] = 0
        h == CHOOSE e \in 0..30 : 2 ^ e <= x[j] /\ x[j] \div 2 < 2 ^ e
        lead == j * LimbBits - h
        last == lead + MantissaBits - 1
        rest == sticky \/ \E i \in (last + 2)..Width : Bit(x, i) = 1
    IN  IF x = ZeroFloat \/ last >= Width THEN x
        ELSE RoundAt(x, last, Bit(x, last + 1) = 1 /\ (rest \/ Bit(x, last) = 1))
RoundDouble(x, sticky) == Call2(Nearest, x, sticky)

\* the limbs of the fraction r / q (r < q), n of them, and what is left
RECURSIVE LongDiv(_, _, _, _)
LongDiv(r, q, n, acc) ==
    IF n = 0 THEN [limbs |-> acc, rem |-> r]
    ELSE LongDiv((r * Base) % q, q, n - 1, Append(acc, (r * Base) \div q))

\* p / q for Python ints p >= 0, q > 0: the quotient correctly rounded
FloatOfRatio(p, q) ==
    Call1(LAMBDA fr : RoundDouble(<< p \div q >> \o fr.limbs, fr.rem # 0),
          LongDiv(p % q, q, FracLimbs, << >>))

\* float + float
FloatAdd(a, b) == Call2(LAMBDA x, y : RoundDouble(AddLimbs(x, y, NumLimbs, 0, << >>), FALSE), a, b)

\* float - float, for a >= b
FloatSub(a, b) == Call2(LAMBDA x, y : RoundDouble(SubLimbs(x, y, NumLimbs, 0, << >>), FALSE), a, b)

\* x / m for a float x and a Python int m > 0, most significant limb first
RECURSIVE DivLimbs(_, _, _, _, _)
DivLimbs(x, m, j, rem, acc) ==
    IF j > NumLimbs THEN [limbs |-> acc, rem |-> rem]
    ELSE LET cur == rem * Base + x[j]
         IN  DivLimbs(x, m, j + 1, cur % m, Append(acc, cur \div m))

FloatDivInt(x, m) ==
    Call1(LAMBDA d : RoundDouble(d.limbs, d.rem # 0),
          Call1(LAMBDA y : DivLimbs(y, m, 1, 0, << >>), x))

\* x * m exactly, for a small int m; limb 1 of the product is its whole
\* integer part
RECURSIVE MulLimbs(_, _, _, _, _)
MulLimbs(x, m, j, carry, acc) ==
    IF j = 1 THEN << x[1] * m + carry >> \o acc
    ELSE LET t == x[j] * m + carry
         IN  MulLimbs(x, m, j - 1, t \div Base, << t % Base >> \o acc)

\* float * int for a small int m
FloatMulInt(x, m) == Call1(LAMBDA y : RoundDouble(MulLimbs(y, m, NumLimbs, 0, << >>), FALSE), x)

\* round(x, ndigits) as the integer round(x, ndigits) * 10^ndigits, scale
\* being 10^ndigits: the decimal nearest to the exact binary value, ties to
\* even
NearestInt(y) ==
    LET half == Bit(y, LimbBits + 1) = 1
        rest == \E i \in (LimbBits + 2)..Width : Bit(y, i) = 1
    IN  IF ~half THEN y[1]
        ELSE IF rest THEN y[1] + 1
        ELSE IF y[1] % 2 = 0 THEN y[1] ELSE y[1] + 1
RoundDecimal(x, scale) ==
    Call1(NearestInt, Call1(LAMBDA v : MulLimbs(v, scale, NumLimbs, 0, << >>), x))

\* float > float
Greater(a, b) == \E j \in 1..NumLimbs : a[j] > b[j] /\ \A k \in 1..(j - 1) : a[k] = b[k]
FloatGreater(a, b) == Call2(Greater, a, b)

\* ------------------------------------------------- signed float arithmetic
\* a * m, m a small int, set s limbs down in the window of the exact product
PartialProduct(a, m, s) ==
    Call1(LAMBDA t :
              [k \in 1..(NumLimbs + FracLimbs) |->
                  IF s = 0 THEN (IF k <= NumLimbs THEN t[k] ELSE 0)
                  ELSE IF k = s THEN t[1] \div Base
                  ELSE IF k = s + 1 THEN t[1] % Base
                  ELSE IF k - s \in 2..NumLimbs THEN t[k - s]
                  ELSE 0],
          MulLimbs(a, m, NumLimbs, 0, << >>))

\* the exact product a * b, one half limb of b at a time
RECURSIVE MulSum(_, _, _, _)
MulSum(a, b, j, acc) ==
    IF j > NumLimbs THEN acc
    ELSE IF b[j] = 0 THEN MulSum(a, b, j + 1, acc)
    ELSE LET half == 2 ^ (LimbBits \div 2)
             wide == NumLimbs + FracLimbs
             hi == Call1(LAMBDA p : PartialProduct(p, half, 0), MulLimbs(a, b[j] \div half, NumLimbs, 0, << >>))
             lo == PartialProduct(a, b[j] % half, j - 1)
             up == PartialProduct(SubSeq(hi, 1, NumLimbs), 1, j - 1)
         IN  MulSum(a, b, j + 1,
                    Call2(LAMBDA x, y : AddLimbs(x, y, wide, 0, << >>),
                          acc,
                          Call2(LAMBDA x, y : AddLimbs(x, y, wide, 0, << >>), up, lo)))

\* float * float for non-negative floats
FloatMul(a, b) ==
    Call1(LAMBDA p : RoundDouble(SubSeq(p, 1, NumLimbs),
                                 \E k \in (NumLimbs + 1)..(NumLimbs + FracLimbs) : p[k] # 0),
          MulSum(a, b, 1, [k \in 1..(NumLimbs + FracLimbs) |-> 0]))

\* one bit of the square root: bit e of limb j joins the root res when the
\* square still fits, rem being what is left of the radicand
SqrtStep(st, j, e) ==
    LET long == 2 * NumLimbs
        b == (NumLimbs - j) * LimbBits + e
        q == (b + 1) \div LimbBits
        sh == (b + 1) % LimbBits
        At(k) == IF k > NumLimbs /\ k <= long THEN st.res[k - NumLimbs] ELSE 0
        t == [k \in 1..long |->
                 (At(k + q) % 2 ^ (LimbBits - sh)) * 2 ^ sh
                 + At(k + q + 1) \div 2 ^ (LimbBits - sh)
                 + (IF k = long - ((2 * b) \div LimbBits) THEN 2 ^ ((2 * b) % LimbBits) ELSE 0)]
    IN  Call1(LAMBDA u :
                  IF \E i \in 1..long : u[i] > st.rem[i] /\ \A k \in 1..(i - 1) : u[k] = st.rem[k]
                  THEN st
                  ELSE [rem |-> SubLimbs(st.rem, u, long, 0, << >>),
                        res |-> [st.res EXCEPT ![j] = @ + 2 ^ e]],
              t)

\* the bits of limb j from bit e down, and the limbs from limb j on, until
\* nothing is left of the radicand or `bits` bits below the point are set
RECURSIVE SqrtBits(_, _, _, _)
SqrtBits(st, j, e, bits) ==
    IF e < 0 \/ (j - 1) * LimbBits - e > bits \/ \A k \in DOMAIN st.rem : st.rem[k] = 0 THEN st
    ELSE SqrtBits(Call1(LAMBDA s : SqrtStep(s, j, e), st), j, e - 1, bits)

RECURSIVE SqrtLimbs(_, _, _)
SqrtLimbs(st, j, bits) ==
    IF j > NumLimbs THEN st
    ELSE SqrtLimbs(Call1(LAMBDA s : SqrtBits(s, j, LimbBits - 1, bits), st), j + 1, bits)

\* math.sqrt of a non-negative float below Base: the root correctly rounded.
\* The whole part of the root is the integer root of the whole part; a
\* root of 1 or more has its 53 bits and the rounding bit among the first
\* MantissaBits bits below the point, what is left of the radicand deciding
\* the rest
FloatSqrt(x) ==
    LET whole == CHOOSE r \in 0..(2 ^ ((LimbBits + 1) \div 2)) : r * r <= x[1] /\ x[1] < (r + 1) * (r + 1)
        left == << 0, x[1] - whole * whole >> \o Tail(x) \o [k \in 1..FracLimbs |-> 0]
    IN  Call1(LAMBDA st : RoundDouble(st.res, \E k \in DOMAIN st.rem : st.rem[k] # 0),
              SqrtLimbs([rem |-> left, res |-> [ZeroFloat EXCEPT ![1] = whole]], 2,
                        IF whole > 0 THEN MantissaBits ELSE Width))

\* Python floats of either sign: the sign and the magnitude, -0.0 included
FloatOfInt(n) == [neg |-> n < 0, mag |-> [j \in 1..NumLimbs |-> IF j = 1 THEN Abs(n) ELSE 0]]
Zero == FloatOfInt(0)
IsZero(a) == a.mag = ZeroFloat

\* -a
Negative(a) == [neg |-> ~a.neg, mag |-> a.mag]

\* a + b
Plus(a, b) ==
    Call2(LAMBDA x, y :
              IF x.neg = y.neg THEN [neg |-> x.neg, mag |-> FloatAdd(x.mag, y.mag)]
              ELSE IF x.mag = y.mag THEN Zero
              ELSE IF Greater(x.mag, y.mag) THEN [neg |-> x.neg, mag |-> FloatSub(x.mag, y.mag)]
              ELSE [neg |-> y.neg, mag |-> FloatSub(y.mag, x.mag)],
          a, b)

\* a - b
Minus(a, b) == Plus(a, Negative(b))

\* a * b
Times(a, b) == Call2(LAMBDA x, y : [neg |-> x.neg # y.neg, mag |-> FloatMul(x.mag, y.mag)], a, b)

\* a / b for a whole number b, as the norms of the model's embeddings are
Over(a, b) ==
    Call2(LAMBDA x, y :
              CASE \A j \in 2..NumLimbs : y.mag[j] = 0 ->
                       [neg |-> x.neg # y.neg, mag |-> FloatDivInt(x.mag, y.mag[1])],
          a, b)

\* a / n for a Python int n > 0
OverInt(a, n) == Call1(LAMBDA x : [neg |-> x.neg, mag |-> FloatDivInt(x.mag, n)], a)

\* math.sqrt(a), a >= 0
Sqrt(a) == Call1(LAMBDA x : [neg |-> x.neg, mag |-> FloatSqrt(x.mag)], a)

\* a < b
Below(a, b) ==
    Call2(LAMBDA x, y :
              IF IsZero(x) /\ IsZero(y) THEN FALSE
              ELSE IF x.neg # y.neg THEN x.neg
              ELSE IF x.neg THEN Greater(x.mag, y.mag)
              ELSE Greater(y.mag, x.mag),
          a, b)

\* list(...): the values of a generator, each computed once
List(f) == SubSeq(f, 1, Len(f))

\* sum(xs): from the int 0, left to right
RECURSIVE SumFrom(_, _, _)
SumFrom(xs, i, acc) == IF i > Len(xs) THEN acc ELSE SumFrom(xs, i + 1, Plus(acc, xs[i]))
Sum(xs) == Call1(LAMBDA l : SumFrom(l, 1, Zero), List(xs))

\* =====================================================================
\* Batch Evaluation Harness (batch_evaluation.py)
\* =====================================================================
AllMethods == << "cosine", "dot", "neg_l2", "neg_l1", "hybrid" >>
DefaultSimilarityMethods == AllMethods
DefaultTopKValues == << 5, 7, 10 >>
DefaultEmbeddingModels == << None >>

\* operation["type"] values given by callers; "translate" is not an operation
OperationTypes == { "ask", "compare", "critique", "translate" }
OperationDicts == { [type |-> t] : t \in OperationTypes } \cup { [model |-> "m"] }

Question(i) == << "question", i >>
EmbeddingModel(i) == << "model", i >>

\* the argument values a caller may pass for each dimension
QuestionArgs == { [i \in 1..n |-> Question(i)] : n \in 0..MaxListLen }
MethodArgs == { NoArg } \cup { Some(SubSeq(AllMethods, 1, n)) : n \in 0..MaxListLen }
ModelArgs == { NoArg } \cup { Some([i \in 1..n |-> EmbeddingModel(i)]) : n \in 0..MaxListLen }
TopKArgs == { NoArg } \cup { Some([i \in 1..n |-> 2 * i + 1]) : n \in 0..MaxListLen }
OperationArgs == UNION { [1..n -> OperationDicts] : n \in 0..MaxListLen }

\* lines 62-70: defaults for the optional lists
OrDefault(arg, default) == IF IsNone(arg) THEN default ELSE arg[1]

\* line 74
TotalRuns(qs, sims, embs, ks, ops) ==
    Len(qs) * Len(sims) * Len(embs) * Len(ks) * Len(ops)

\* line 171
OperationType(operation) == DictGet(operation, "type", "ask")

\* lines 151-322: the record a run returns when no call in it raises.
\* Answers, sources and metrics come from the providers and are kept as the
\* name of what the branch stores.
RunSingleOperation(question, question_idx, operation, similarity_method, embedding_model, top_k) ==
    LET operation_type == OperationType(operation)
        actual_embedding_model == embedding_model
    IN  [ status |-> "success",
          question_idx |-> question_idx,
          question |-> question,
          configuration |->
              [ operation |-> operation_type,
                similarity_method |-> similarity_method,
                embedding_model |-> IF IsNone(actual_embedding_model)
                                    THEN << "default" >>
                                    ELSE actual_embedding_model,
                top_k |-> top_k ],
          stored |-> CASE operation_type = "ask" -> "answer+metrics"
                       [] operation_type = "compare" -> "answers+metrics"
                       [] operation_type = "critique" -> "answer+rounds+metrics"
                       [] OTHER -> "nothing" ]

\* lines 108-115: the record appended by the except clause
FailedRecord(run_number, total, question_idx, question, error) ==
    [ run_number |-> run_number,
      total_runs |-> total,
      question_idx |-> question_idx,
      question |-> question,
      error |-> error,
      status |-> "failed" ]

\* lines 102-104
SuccessRecord(result, run_number, total) ==
    [ status |-> result.status,
      question_idx |-> result.question_idx,
      question |-> result.question,
      configuration |-> result.configuration,
      stored |-> result.stored,
      run_number |-> run_number,
      total_runs |-> total ]

\* mutants of the except clause: the failure swallowed; the exception re-raised
OnRunException_Swallow(rs, rec) == [ pc |-> "continue", results |-> rs ]
OnRunException_Reraise(rs, rec) == [ pc |-> "raise", results |-> rs ]

\* lines 106-115: what the loop does with an exception of a run
OnRunException(rs, rec) == [ pc |-> "continue", results |-> Append(rs, rec) ]

\* the loops nested the other way round: questions innermost
NextPos_QuestionsInnermost(pos, lens) ==
    IF pos[1] < lens[1] THEN [pos EXCEPT ![1] = @ + 1]
    ELSE IF pos[2] < lens[2] THEN [pos EXCEPT ![2] = @ + 1, ![1] = 1]
    ELSE IF pos[3] < lens[3] THEN [pos EXCEPT ![3] = @ + 1, ![2] = 1, ![1] = 1]
    ELSE IF pos[4] < lens[4] THEN [pos EXCEPT ![4] = @ + 1, ![3] = 1, ![2] = 1, ![1] = 1]
    ELSE IF pos[5] < lens[5] THEN << 1, 1, 1, 1, pos[5] + 1 >>
    ELSE None

\* lines 80-84: the nested for loops, innermost index fastest
NextPos(pos, lens) ==
    IF pos[5] < lens[5] THEN [pos EXCEPT ![5] = @ + 1]
    ELSE IF pos[4] < lens[4] THEN [pos EXCEPT ![4] = @ + 1, ![5] = 1]
    ELSE IF pos[3] < lens[3] THEN [pos EXCEPT ![3] = @ + 1, ![4] = 1, ![5] = 1]
    ELSE IF pos[2] < lens[2] THEN [pos EXCEPT ![2] = @ + 1, ![3] = 1, ![4] = 1, ![5] = 1]
    ELSE IF pos[1] < lens[1] THEN << pos[1] + 1, 1, 1, 1, 1 >>
    ELSE None

Lens == << Len(questions), Len(embedding_models), Len(similarity_methods),
           Len(top_k_values), Len(operations) >>

BatchIdle ==
    /\ b_pc = "idle"
    /\ questions = << >>
    /\ embedding_models = << >>
    /\ similarity_methods = << >>
    /\ top_k_values = << >>
    /\ operations = << >>
    /\ total_runs = 0
    /\ run_count = 0
    /\ b_pos = None
    /\ results = << >>
    /\ experiment_metadata = None
    /\ csv_rows = None

\* lines 62-78: defaults, total_runs, empty results
RunBatchExperiment ==
    /\ b_pc = "idle"
    /\ \E qs \in QuestionArgs, ops \in OperationArgs, sims \in MethodArgs,
          embs \in ModelArgs, ks \in TopKArgs :
          LET sm == OrDefault(sims, DefaultSimilarityMethods)
              tk == OrDefault(ks, DefaultTopKValues)
              em == OrDefault(embs, DefaultEmbeddingModels)
              tr == TotalRuns(qs, sm, em, tk, ops)
          IN  /\ tr <= MaxRuns
              /\ questions' = qs
              /\ operations' = ops
              /\ similarity_methods' = sm
              /\ top_k_values' = tk
              /\ embedding_models' = em
              /\ total_runs' = tr
              /\ b_pc' = IF tr > 0 THEN "loop" ELSE "summarize"
              /\ b_pos' = IF tr > 0 THEN << 1, 1, 1, 1, 1 >> ELSE None
    /\ results' = << >>
    /\ run_count' = 0
    /\ UNCHANGED << experiment_metadata, csv_rows, outsideBatch >>

\* lines 85-115: one iteration of the innermost loop body
BatchRun ==
    /\ b_pc = "loop"
    /\ LET question_idx == b_pos[1] - 1
           question == questions[b_pos[1]]
           embedding_model == embedding_models[b_pos[2]]
           similarity_method == similarity_methods[b_pos[3]]
           top_k == top_k_values[b_pos[4]]
           operation == operations[b_pos[5]]
           rc == run_count + 1
           np == NextPos(b_pos, Lens)
       IN  /\ run_count' = rc
           /\ \E raises \in BOOLEAN :
                 IF ~raises
                 THEN /\ results' = Append(results,
                             SuccessRecord(RunSingleOperation(question, question_idx,
                                 operation, similarity_method, embedding_model, top_k),
                                 rc, total_runs))
                      /\ b_pc' = IF IsNone(np) THEN "summarize" ELSE "loop"
                      /\ b_pos' = np
                 ELSE LET h == OnRunException(results,
                                  FailedRecord(rc, total_runs, question_idx, question,
                                               "provider error"))
                      IN  /\ results' = h.results
                          /\ b_pc' = IF h.pc = "raise" THEN "raised"
                                     ELSE IF IsNone(np) THEN "summarize" ELSE "loop"
                          /\ b_pos' = IF h.pc = "raise" THEN b_pos ELSE np
    /\ UNCHANGED << questions, embedding_models, similarity_methods, top_k_values,
                    operations, total_runs, experiment_metadata, csv_rows, outsideBatch >>

\* lines 85-100: a run whose provider call never returns; the loop stays in
\* the call (ask, compare and critique call the text-generation provider, an
\* operation of another type calls nothing)
BatchRunStalls ==
    /\ b_pc = "loop"
    /\ OperationType(operations[b_pos[5]]) \in { "ask", "compare", "critique" }
    /\ run_count' = run_count + 1
    /\ b_pc' = "stalled"
    /\ UNCHANGED << questions, embedding_models, similarity_methods, top_k_values,
                    operations, total_runs, b_pos, results, experiment_metadata,
                    csv_rows, outsideBatch >>

\* line 137
SuccessfulRuns(rs) == Cardinality({ i \in DOMAIN rs : rs[i].status # "failed" })
\* line 138
FailedRuns(rs) == Cardinality({ i \in DOMAIN rs : rs[i].status = "failed" })

\* lines 117-149: summary and the returned metadata
BatchReturn ==
    /\ b_pc = "summarize"
    /\ experiment_metadata' =
          [ total_runs |-> total_runs,
            successful_runs |-> SuccessfulRuns(results),
            failed_runs |-> FailedRuns(results),
            questions_count |-> Len(questions),
            operations |-> [i \in DOMAIN operations |->
                               DictGet(operations[i], "type", None)] ]
    /\ b_pc' = "returned"
    /\ UNCHANGED << questions, embedding_models, similarity_methods, top_k_values,
                    operations, total_runs, run_count, b_pos, results, csv_rows,
                    outsideBatch >>

\* lines 481-511: the row of one successful record; the columns of the
\* model, the metrics and the answer are what the branch stored
CsvRow(result) ==
    [ run_number |-> DictGet(result, "run_number", None),
      question_idx |-> DictGet(result, "question_idx", None),
      question |-> DictGet(result, "question", None),
      operation |-> result.configuration.operation,
      similarity_method |-> result.configuration.similarity_method,
      embedding_model |-> result.configuration.embedding_model,
      top_k |-> result.configuration.top_k,
      stored |-> result.stored ]

\* a row written for every record, failed runs included
CsvRows_All(rs) ==
    List([ i \in DOMAIN rs |->
             [ run_number |-> DictGet(rs[i], "run_number", None),
               question_idx |-> DictGet(rs[i], "question_idx", None),
               question |-> DictGet(rs[i], "question", None),
               operation |-> DictGet(DictGet(rs[i], "configuration", << >>), "operation", None),
               similarity_method |->
                   DictGet(DictGet(rs[i], "configuration", << >>), "similarity_method", None),
               embedding_model |->
                   DictGet(DictGet(rs[i], "configuration", << >>), "embedding_model", None),
               top_k |-> DictGet(DictGet(rs[i], "configuration", << >>), "top_k", None),
               stored |-> DictGet(rs[i], "stored", None) ] ])

\* lines 468-511: the rows written, one per record whose status is success
CsvRows(rs) ==
    LET successful == SelectSeq(rs, LAMBDA result : DictGet(result, "status", None) = "success")
    IN  List([ i \in DOMAIN successful |-> CsvRow(successful[i]) ])

\* lines 427-513: export_to_csv of the report returned; no results raises
\* ValueError before the file is opened
ExportToCsv ==
    /\ b_pc = "returned"
    /\ IF results = << >>
       THEN /\ b_pc' = "export_raised"
            /\ csv_rows' = csv_rows
       ELSE /\ b_pc' = "exported"
            /\ csv_rows' = CsvRows(results)
    /\ UNCHANGED << questions, embedding_models, similarity_methods, top_k_values,
                    operations, total_runs, run_count, b_pos, results,
                    experiment_metadata, outsideBatch >>


\* =====================================================================
\* Critique Loop Controller (run_critique, called from batch_evaluation.py,
\* main.py and qa.py)
\* =====================================================================
Answers == { << "answer", i >> : i \in 1..NumAnswers }

\* what the critic model returns after defensive parsing: scores are null
\* when the response was malformed
CriticResponses ==
    { [ scores |-> sc, improved_prompt |-> p ] :
        sc \in { None } \cup { << c >> : c \in 0..MaxScore },
        p \in { "improved prompt" } }

\* mutants of max_rounds: a third round allowed; self-correction cut short
MaxRoundsFor_Three(sc) == IF sc THEN 3 ELSE 1
MaxRoundsFor_One(sc) == IF sc THEN 1 ELSE 1

\* batch_evaluation.py line 291
MaxRoundsFor(sc) == IF sc THEN 2 ELSE 1

\* batch_evaluation.py line 290
BatchSelfCorrect(operation) == DictGet(operation, "self_correct", TRUE)

\* main.py lines 717-718
AnalyzeSelfCorrect(payload) == DictGet(payload, "max_rounds", 2) > 1

CritiqueIdle ==
    /\ cr_state = "Idle"
    /\ self_correct = FALSE
    /\ max_rounds = 0
    /\ rounds = << >>
    /\ cr_prompt = None
    /\ cr_draft = None
    /\ cr_answer = None

\* Draft of round 1: the answer model answers the question
StartCritique(sc) ==
    /\ cr_state = "Idle"
    /\ self_correct' = sc
    /\ max_rounds' = MaxRoundsFor(sc)
    /\ rounds' = << >>
    /\ cr_prompt' = "question"
    /\ \E a \in Answers : cr_draft' = a
    /\ cr_state' = "Draft"
    /\ cr_answer' = None
    /\ UNCHANGED outsideCritique

\* batch_evaluation.py lines 286-305: a critique operation of a batch
CritiqueFromBatch ==
    \E operation \in { [type |-> "critique"] } \cup
                     { [type |-> "critique", self_correct |-> b] : b \in BOOLEAN } :
        StartCritique(BatchSelfCorrect(operation))

\* main.py lines 713-741: the critique branch of analyze_operation
CritiqueFromAnalyze ==
    \E payload \in { [question |-> "q"] } \cup
                   { [question |-> "q", max_rounds |-> m] : m \in 0..MaxRoundsPayload } :
        StartCritique(AnalyzeSelfCorrect(payload))

\* main.py lines 454-475: the /critique route, self_correct as given
CritiqueFromRoute ==
    \E sc \in BOOLEAN : StartCritique(sc)

\* Draft -> Critiqued: the critic evaluates the draft; the round is recorded
\* even when the critique could not be parsed (null scores)
CritiqueDraft ==
    /\ cr_state = "Draft"
    /\ \E c \in CriticResponses :
          rounds' = Append(rounds,
              [ round |-> Len(rounds) + 1,
                answer |-> cr_draft,
                prompt |-> cr_prompt,
                scores |-> c.scores,
                improved_prompt |-> c.improved_prompt ])
    /\ cr_draft' = None
    /\ cr_state' = "Critiqued"
    /\ UNCHANGED << self_correct, max_rounds, cr_prompt, cr_answer, outsideCritique >>

\* whether another round is run after the round just critiqued
AnotherRound == self_correct /\ Len(rounds) < max_rounds

\* Critiqued -> Improving: the improved prompt replaces the current one
Improve ==
    /\ cr_state = "Critiqued"
    /\ AnotherRound
    /\ cr_prompt' = rounds[Len(rounds)].improved_prompt
    /\ cr_state' = "Improving"
    /\ UNCHANGED << self_correct, max_rounds, rounds, cr_draft, cr_answer, outsideCritique >>

\* Improving -> Draft: the answer model answers the improved prompt
Redraft ==
    /\ cr_state = "Improving"
    /\ \E a \in Answers : cr_draft' = a
    /\ cr_state' = "Draft"
    /\ UNCHANGED << self_correct, max_rounds, rounds, cr_prompt, cr_answer, outsideCritique >>

\* the session's answer: the last round's draft
SessionAnswer(rs) == rs[Len(rs)].answer

\* Critiqued -> Terminal
Terminate ==
    /\ cr_state = "Critiqued"
    /\ ~AnotherRound
    /\ cr_answer' = SessionAnswer(rounds)
    /\ cr_state' = "Terminal"
    /\ UNCHANGED << self_correct, max_rounds, rounds, cr_prompt, cr_draft, outsideCritique >>

\* =====================================================================
\* Faithfulness metrics (faithfulness.py)
\*
\* A text is the sequence of its whitespace-separated words.  An answer is
\* the sequence of pieces the sentence tokenizer cuts it into.  round(x, 3)
\* is held as the integer number of thousandths and round(x, 1) as the
\* integer number of tenths: for a, b in 0..1000 the floats nearest a/1000
\* and b/1000 add up to exactly 1.0 precisely when a + b = 1000.
\* =====================================================================
S_Paris == << "Paris", "is", "the", "capital", "of", "France." >>
S_Sunny == << "It", "is", "sunny", "today." >>
P_Number == << "4." >>
P_Dots == << "..." >>
T_Paris == << "Paris", "is", "the", "capital", "of", "France" >>
T_Rome == << "Rome", "is", "in", "Italy." >>

\* str.lower() on one word
Lower(w) ==
    CASE w = "Paris" -> "paris"
      [] w = "France" -> "france"
      [] w = "France." -> "france."
      [] w = "It" -> "it"
      [] w = "Rome" -> "rome"
      [] w = "Alpha" -> "alpha"
      [] w = "Unable" -> "unable"
      [] w = "Gamma" -> "gamma"
      [] w = "Italy." -> "italy."
      [] w = "What" -> "what"
      [] w = "Gamma." -> "gamma."
      [] w = "Capital" -> "capital"
      [] OTHER -> w
LowerText(text) == [i \in 1..Len(text) |-> Lower(text[i])]

\* re.sub(r'[^\w\s]', ' ', word).split(): the tokens left of one word
WordTokens(w) ==
    CASE w = "france." -> << "france" >>
      [] w = "France." -> << "France" >>
      [] w = "today." -> << "today" >>
      [] w = "italy." -> << "italy" >>
      [] w = "Italy." -> << "Italy" >>
      [] w = "4." -> << "4" >>
      [] w = "..." -> << >>
      [] w = "-" -> << >>
      [] w = "available." -> << "available" >>
      [] w = "gamma." -> << "gamma" >>
      [] w = "Gamma." -> << "Gamma" >>
      [] OTHER -> << w >>
_tokenize(text) == { t \in UNION { Range(WordTokens(text[i])) : i \in 1..Len(text) } : TRUE }

\* the pieces _split_into_sentences drops: shorter than 3 characters, a
\* bare number, bare punctuation
IsArtifact(piece) == piece = << >> \/ piece = P_Number \/ piece = P_Dots \/ piece = << "ok" >>
_split_into_sentences(answer) == SelectSeq(answer, LAMBDA piece : ~IsArtifact(piece))

\* phrase in chunk_lower: the words of phrase lie in a row in the chunk,
\* the last one possibly followed by more characters of the chunk's word
WordStarts(w, longer) == longer = w \/ (WordTokens(longer) = << w >> /\ WordTokens(w) = << w >>)
PhraseIn(phrase, chunk_lower) ==
    \E at \in 0..(Len(chunk_lower) - Len(phrase)) :
        /\ \A k \in 1..(Len(phrase) - 1) : chunk_lower[at + k] = phrase[k]
        /\ WordStarts(phrase[Len(phrase)], chunk_lower[at + Len(phrase)])

MinPhraseLength == 5
MaxPhraseRange == 15
\* the loops of _extract_matching_phrases, n from min_length, i from 0
RECURSIVE _extract_matching_phrases(_, _, _, _, _)
_extract_matching_phrases(sentence, chunk, n, i, quotes) ==
    LET words == LowerText(sentence)
        phrase == SubSeq(words, i + 1, i + n)
        seen == { LowerText(quotes[q]) : q \in 1..Len(quotes) }
    IN  IF n >= Min(Len(words) + 1, MaxPhraseRange) THEN quotes
        ELSE IF i >= Len(words) - n + 1
             THEN _extract_matching_phrases(sentence, chunk, n + 1, 0, quotes)
        ELSE _extract_matching_phrases(sentence, chunk, n, i + 1,
                 IF PhraseIn(phrase, LowerText(chunk)) /\ phrase \notin seen
                 THEN Append(quotes, SubSeq(sentence, i + 1, i + n))
                 ELSE quotes)

\* the sentence transformer of one call: not installed (or failing to
\* load), or scoring every sentence against every chunk with one cosine
\* (that of "opposed" is not positive: the 0.0 the clamp makes of it)
Transformers == { "unavailable", "dissimilar", "similar", "opposed" }
CosSim(model) ==
    CASE model = "similar" -> FloatOfRatio(3, 4)
      [] model = "opposed" -> ZeroFloat
      [] OTHER -> FloatOfRatio(1, 4)
FloatMax(a, b) == Call2(LAMBDA x, y : IF FloatGreater(y, x) THEN y ELSE x, a, b)
LexicalThreshold == FloatOfRatio(3, 10)
SemanticThreshold == FloatOfRatio(1, 2)

\* the cosine taken whether or not the transformer is there
ChunkSupport_AlwaysSemantic(sentence, chunk_text, model) ==
    LET sentence_tokens == _tokenize(LowerText(sentence))
        chunk_tokens == _tokenize(LowerText(chunk_text))
    IN  [ lexical_overlap |->
              IF sentence_tokens = {} \/ chunk_tokens = {} THEN ZeroFloat
              ELSE FloatOfRatio(Cardinality(sentence_tokens \cap chunk_tokens),
                                Cardinality(sentence_tokens)),
          semantic_similarity |-> FloatOfRatio(3, 4),
          potential_quotes |->
              _extract_matching_phrases(sentence, chunk_text, MinPhraseLength, 0, << >>) ]

\* what one pass of the loop over the chunks in _analyze_sentence_support
\* computes for its chunk
ChunkSupport(sentence, chunk_text, model) ==
    LET sentence_tokens == _tokenize(LowerText(sentence))
        chunk_tokens == _tokenize(LowerText(chunk_text))
    IN  [ lexical_overlap |->
              IF sentence_tokens = {} \/ chunk_tokens = {} THEN ZeroFloat
              ELSE FloatOfRatio(Cardinality(sentence_tokens \cap chunk_tokens),
                                Cardinality(sentence_tokens)),
          semantic_similarity |->
              IF model = "unavailable" THEN ZeroFloat
              ELSE FloatMax(ZeroFloat, IF FloatGreater(CosSim(model), OneFloat)
                                       THEN OneFloat ELSE CosSim(model)),
          potential_quotes |->
              _extract_matching_phrases(sentence, chunk_text, MinPhraseLength, 0, << >>) ]

\* the support threshold, and what a supporting chunk adds
SupportStep(acc, idx, chunk, cs) ==
    IF ~ \/ FloatGreater(cs.lexical_overlap, LexicalThreshold)
         \/ FloatGreater(cs.semantic_similarity, SemanticThreshold)
         \/ cs.potential_quotes # << >>
    THEN acc
    ELSE [ supporting_chunks |-> Append(acc.supporting_chunks,
               [ chunk_id |-> idx,
                 doc_name |-> DictGet(chunk, "doc_name", "Unknown"),
                 lexical_overlap |-> RoundDecimal(cs.lexical_overlap, 1000),
                 semantic_similarity |-> RoundDecimal(cs.semantic_similarity, 1000),
                 overlap |-> RoundDecimal(cs.lexical_overlap, 1000),
                 rank |-> DictGet(chunk, "rank", idx + 1) ]),
           quotes |-> acc.quotes \o cs.potential_quotes,
           max_lexical_overlap |-> FloatMax(acc.max_lexical_overlap, cs.lexical_overlap),
           max_semantic_similarity |-> FloatMax(acc.max_semantic_similarity, cs.semantic_similarity) ]

RECURSIVE SupportLoop(_, _, _, _, _)
SupportLoop(sentence, retrieved_chunks, model, idx, acc) ==
    IF idx >= Len(retrieved_chunks) THEN acc
    ELSE SupportLoop(sentence, retrieved_chunks, model, idx + 1,
             Call2(LAMBDA a, cs : SupportStep(a, idx, retrieved_chunks[idx + 1], cs),
                   acc,
                   ChunkSupport(sentence, DictGet(retrieved_chunks[idx + 1], "text", << >>), model)))

MaxQuotesPerSentence == 2
\* every sentence taken for supported
SupportInfo_AlwaysSupported(r) ==
    [ supported |-> TRUE,
      supporting_chunks |-> r.supporting_chunks,
      confidence |-> RoundDecimal(FloatMax(r.max_lexical_overlap, r.max_semantic_similarity), 1000),
      confidence_lexical |-> RoundDecimal(r.max_lexical_overlap, 1000),
      confidence_semantic |-> RoundDecimal(r.max_semantic_similarity, 1000),
      quotes |-> SubSeq(r.quotes, 1, Min(MaxQuotesPerSentence, Len(r.quotes))) ]

SupportInfo(r) ==
    [ supported |-> \/ FloatGreater(r.max_lexical_overlap, LexicalThreshold)
                    \/ FloatGreater(r.max_semantic_similarity, SemanticThreshold)
                    \/ Len(r.quotes) > 0,
      supporting_chunks |-> r.supporting_chunks,
      confidence |-> RoundDecimal(FloatMax(r.max_lexical_overlap, r.max_semantic_similarity), 1000),
      confidence_lexical |-> RoundDecimal(r.max_lexical_overlap, 1000),
      confidence_semantic |-> RoundDecimal(r.max_semantic_similarity, 1000),
      quotes |-> SubSeq(r.quotes, 1, Min(MaxQuotesPerSentence, Len(r.quotes))) ]
_analyze_sentence_support(sentence, retrieved_chunks, model) ==
    Call1(SupportInfo,
          SupportLoop(sentence, retrieved_chunks, model, 0,
              [ supporting_chunks |-> << >>, quotes |-> << >>,
                max_lexical_overlap |-> ZeroFloat, max_semantic_similarity |-> ZeroFloat ]))

\* the entry the loop over the sentences appends for sentence idx
SupportEntry(sentence, idx, support_info) ==
    [ sentence |-> sentence,
      sentence_id |-> idx,
      supported |-> support_info.supported,
      supporting_chunks |-> support_info.supporting_chunks,
      confidence |-> support_info.confidence,
      confidence_lexical |-> support_info.confidence_lexical,
      confidence_semantic |-> support_info.confidence_semantic,
      quotes |-> support_info.quotes ]

\* sentence_support for the sentences lo..hi of the answer, in order
RECURSIVE SentenceSupport(_, _, _, _, _)
SentenceSupport(sentences, retrieved_chunks, model, lo, hi) ==
    IF lo > hi THEN << >>
    ELSE IF lo = hi
    THEN << Call1(LAMBDA info : SupportEntry(sentences[lo], lo - 1, info),
                  _analyze_sentence_support(sentences[lo], retrieved_chunks, model)) >>
    ELSE SentenceSupport(sentences, retrieved_chunks, model, lo, (lo + hi) \div 2)
         \o SentenceSupport(sentences, retrieved_chunks, model, (lo + hi) \div 2 + 1, hi)

\* extracted_quotes: the quotes of the sentences in order, each once
ExtractedQuotes(sentence_support) ==
    LET Slots == { << idx, q >> \in (DOMAIN sentence_support) \X (1..MaxQuotesPerSentence) :
                      q <= Len(sentence_support[idx].quotes) }
        At(slot) == sentence_support[slot[1]].quotes[slot[2]]
        Before(a, b) == a[1] < b[1] \/ (a[1] = b[1] /\ a[2] < b[2])
        First == { a \in Slots : \A b \in Slots : Before(b, a) => At(b) # At(a) }
        Place(a) == 1 + Cardinality({ b \in First : Before(b, a) })
    IN  [ i \in 1..Cardinality(First) |-> At(CHOOSE a \in First : Place(a) = i) ]

MaxExtractedQuotes == 3
\* the metrics computed after the loop over the sentences
FaithfulnessReport(sentence_support) ==
    LET total_supported == Cardinality({ i \in DOMAIN sentence_support : sentence_support[i].supported })
        n == Len(sentence_support)
        evidence_coverage == IF n > 0 THEN FloatOfRatio(total_supported, n) ELSE ZeroFloat
        hallucination_risk == FloatSub(OneFloat, evidence_coverage)
        citation_coverage == IF n > 0 THEN FloatMulInt(FloatOfRatio(total_supported, n), 100) ELSE ZeroFloat
        extracted_quotes == Call1(ExtractedQuotes, sentence_support)
    IN  [ sentence_support |-> sentence_support,
          extracted_quotes |-> Call1(LAMBDA qs : SubSeq(qs, 1, Min(MaxExtractedQuotes, Len(qs))),
                                     extracted_quotes),
          hallucination_risk |-> RoundDecimal(hallucination_risk, 1000),
          evidence_coverage |-> RoundDecimal(evidence_coverage, 1000),
          citation_coverage |-> RoundDecimal(citation_coverage, 10),
          total_sentences |-> n,
          supported_sentences |-> total_supported ]

calculate_faithfulness_metrics(answer, retrieved_chunks, model) ==
    Call1(FaithfulnessReport,
          Call1(LAMBDA answer_sentences :
                    SentenceSupport(answer_sentences, retrieved_chunks, model, 1, Len(answer_sentences)),
                _split_into_sentences(answer)))

\* ---- the calls of calculate_faithfulness_metrics the model makes
C_paris == [ text |-> T_Paris, doc_name |-> "geography.pdf", score |-> 9, rank |-> 1 ]
C_rome == [ text |-> T_Rome, doc_name |-> "geography.pdf", score |-> 4 ]
C_notext == [ doc_name |-> "scan.pdf" ]
\* the chunk the answer's sentence was copied from, full stop included
C_quote == [ text |-> S_Paris, doc_name |-> "geography.pdf", score |-> 9, rank |-> 1 ]
FaithChunkLists == { << >>, << C_paris >>, << C_rome, C_paris >>, << C_notext >>, << C_quote >>, << C_paris, C_paris >> }

\* short answers of any pieces, and long answers of n sentences of which
\* the first s repeat the chunk's statement
Pieces == { S_Paris, S_Sunny, P_Number }
ShortAnswers == UNION { [ 1..n -> Pieces ] : n \in 0..MaxShortAnswer }
LongAnswer(s, n) == [ i \in 1..n |-> IF i <= s THEN S_Paris ELSE S_Sunny ]
LongAnswers == { LongAnswer(s, n) : s \in 0..MaxRepeated,
                                    n \in { m \in 1..MaxSentences : m % 10 = 0 } }
FaithAnswers == ShortAnswers \cup LongAnswers

FaithIdle ==
    /\ fm_pc = "idle"
    /\ fm_answer = None
    /\ fm_chunks = None
    /\ fm_model = None
    /\ fm_metrics = None

CalculateFaithfulnessMetrics ==
    /\ fm_pc = "idle"
    /\ \E answer \in FaithAnswers, retrieved_chunks \in FaithChunkLists, model \in Transformers :
          /\ fm_answer' = answer
          /\ fm_chunks' = retrieved_chunks
          /\ fm_model' = model
          /\ fm_metrics' = Call3(calculate_faithfulness_metrics, answer, retrieved_chunks, model)
    /\ fm_pc' = "returned"
    /\ UNCHANGED outsideFaith

\* =====================================================================
\* Retrieval quality metrics (faithfulness.py)
\* =====================================================================
\* Jaccard similarity of the token sets of two texts
_calculate_text_similarity(text1, text2) ==
    LET tokens1 == _tokenize(LowerText(text1))
        tokens2 == _tokenize(LowerText(text2))
    IN  IF tokens1 = {} \/ tokens2 = {} THEN ZeroFloat
        ELSE FloatOfRatio(Cardinality(tokens1 \cap tokens2), Cardinality(tokens1 \cup tokens2))

\* the pairs (i, j), i < j, of the nested loops over n chunks
RECURSIVE ChunkPairs(_, _, _, _)
ChunkPairs(n, i, j, acc) ==
    IF i >= n THEN acc
    ELSE IF j >= n THEN ChunkPairs(n, i + 1, i + 2, acc)
    ELSE ChunkPairs(n, i, j + 1, Append(acc, << i, j >>))

\* sum() of a list of floats: left to right, each partial sum rounded
RECURSIVE FloatSum(_, _, _)
FloatSum(xs, k, acc) ==
    IF k > Len(xs) THEN acc ELSE FloatSum(xs, k + 1, FloatAdd(acc, xs[k]))

RedundantAbove == FloatOfRatio(3, 5)
MaxRedundancyDetails == 5
\* the chunks of the model carry no all_scores: the default balance 0.5
_calculate_lexical_semantic_balance(retrieved_chunks) == FloatOfRatio(1, 2)

calculate_retrieval_quality_metrics(retrieved_chunks) ==
    LET chunk_texts == [ i \in DOMAIN retrieved_chunks |-> DictGet(retrieved_chunks[i], "text", << >>) ]
        pairs == ChunkPairs(Len(chunk_texts), 0, 1, << >>)
        pairwise_similarities == [ p \in DOMAIN pairs |->
            _calculate_text_similarity(chunk_texts[pairs[p][1] + 1], chunk_texts[pairs[p][2] + 1]) ]
        redundant == SelectSeq([ p \in DOMAIN pairs |-> p ],
                               LAMBDA p : FloatGreater(pairwise_similarities[p], RedundantAbove))
        redundancy_details == [ r \in DOMAIN redundant |->
            [ chunk_1 |-> pairs[redundant[r]][1],
              chunk_2 |-> pairs[redundant[r]][2],
              similarity |-> RoundDecimal(pairwise_similarities[redundant[r]], 1000),
              doc_1 |-> DictGet(retrieved_chunks[pairs[redundant[r]][1] + 1], "doc_name", "Unknown"),
              doc_2 |-> DictGet(retrieved_chunks[pairs[redundant[r]][2] + 1], "doc_name", "Unknown") ] ]
        avg_similarity ==
            IF Len(pairs) > 0
            THEN FloatDivInt(FloatSum(pairwise_similarities, 1, ZeroFloat), Len(pairs))
            ELSE ZeroFloat
        chunk_redundancy == avg_similarity
        diversity_score == FloatSub(OneFloat, chunk_redundancy)
        unique_docs == { DictGet(retrieved_chunks[i], "doc_name", "Unknown") : i \in DOMAIN retrieved_chunks }
    IN  IF retrieved_chunks = << >>
        THEN [ chunk_redundancy |-> 0,
               diversity_score |-> 1000,
               document_coverage |-> 0,
               unique_documents |-> {},
               lexical_semantic_balance |-> 500,
               avg_chunk_similarity |-> 0,
               redundancy_details |-> << >> ]
        ELSE [ chunk_redundancy |-> RoundDecimal(chunk_redundancy, 1000),
               diversity_score |-> RoundDecimal(diversity_score, 1000),
               document_coverage |-> Cardinality(unique_docs),
               unique_documents |-> unique_docs,
               lexical_semantic_balance |->
                   RoundDecimal(_calculate_lexical_semantic_balance(retrieved_chunks), 1000),
               avg_chunk_similarity |-> RoundDecimal(avg_similarity, 1000),
               redundancy_details |->
                   SubSeq(redundancy_details, 1, Min(MaxRedundancyDetails, Len(redundancy_details))) ]

\* ---- the calls of calculate_retrieval_quality_metrics the model makes:
\* chunk texts are the first k words of one document, so that the Jaccard
\* similarity of two of them is the ratio of their lengths
PrefixText(k) == [ i \in 1..k |-> ToString(i) ]
WordCounts == { 0, 1, 2, 3, 10, 16, MaxWords }
QualityChunks ==
    { [ text |-> PrefixText(k), doc_name |-> IF k % 2 = 0 THEN "a.pdf" ELSE "b.pdf" ] : k \in WordCounts }
    \cup { [ doc_name |-> "scan.pdf" ], [ text |-> PrefixText(2) ] }
\* lists of near-duplicate chunks, long enough for more than five pairs
SimilarChunks == { [ text |-> PrefixText(k), doc_name |-> "a.pdf" ] : k \in { 10, 16 } }
QualityChunkLists ==
    UNION { [ 1..n -> QualityChunks ] : n \in 0..MaxChunks }
        \cup UNION { [ 1..n -> SimilarChunks ] : n \in 4..MaxSimilarChunks }

QualityIdle ==
    /\ rq_pc = "idle"
    /\ rq_chunks = None
    /\ rq_metrics = None

CalculateRetrievalQualityMetrics ==
    /\ rq_pc = "idle"
    /\ \E retrieved_chunks \in QualityChunkLists :
          /\ rq_chunks' = retrieved_chunks
          /\ rq_metrics' = Call1(calculate_retrieval_quality_metrics, retrieved_chunks)
    /\ rq_pc' = "returned"
    /\ UNCHANGED outsideQuality

\* =====================================================================
\* Retrieval under the five similarity methods: add_embeddings
\* (vector_store.py) fills the store, get_chunks_for_all_methods (qa.py)
\* ranks its records.  A text is the sequence of its words, as elsewhere.
\* =====================================================================
\* len(text), the words being joined by single spaces
RECURSIVE StrLen(_, _)
StrLen(text, i) ==
    IF i > Len(text) THEN 0
    ELSE Len(text[i]) + (IF i < Len(text) THEN 1 ELSE 0) + StrLen(text, i + 1)

\* the embedding model is outside the program: the vectors it gives the
\* texts of the model
Vector(ints) == [i \in DOMAIN ints |-> FloatOfInt(ints[i])]
Queries == { << "Alpha", "beta" >>, << "Gamma" >> }
embed_query(text) ==
    IF text = << >> THEN << >>
    ELSE CASE text = << "Alpha", "beta" >> -> Vector(<< 1, 0 >>)
           [] text = << "Gamma" >> -> Vector(<< 0, 1 >>)

\* the documents ingested: the texts of their chunks and the embeddings
\* the model of the day gave them (d.pdf was embedded by a model of another
\* dimension; the chunk of e.pdf has no vector, its embedding is null)
Documents ==
    { [ doc_name |-> "a.pdf",
        texts |-> << << "Alpha", "beta" >>, << "beta", "gamma" >> >>,
        embeddings |-> << Vector(<< 1, 0 >>), Vector(<< 0, 1 >>) >> ],
      [ doc_name |-> "b.pdf",
        texts |-> << << "delta" >> >>,
        embeddings |-> << Vector(<< -1, 0 >>) >> ],
      [ doc_name |-> "c.pdf",
        texts |-> << << "Gamma.", "delta" >> >>,
        embeddings |-> << Vector(<< 2, 0 >>) >> ],
      [ doc_name |-> "d.pdf",
        texts |-> << << "Alpha", "beta" >> >>,
        embeddings |-> << Vector(<< 1, 0, 0 >>) >> ],
      [ doc_name |-> "e.pdf",
        texts |-> << << "gamma" >> >>,
        embeddings |-> << None >> ] }

\* the records add_embeddings writes, one per (text, embedding) pair
NewRecords(texts, embeddings, doc_name) ==
    [ i \in 1..Min(Len(texts), Len(embeddings)) |->
        [ doc_name |-> doc_name, text |-> texts[i], embedding |-> embeddings[i] ] ]

RankIdle ==
    /\ store = << >>
    /\ rk_pc = "idle"
    /\ rk_args = None
    /\ rk_result = None

AddEmbeddings ==
    /\ rk_pc = "idle"
    /\ \E d \in Documents :
          /\ \A i \in DOMAIN store : store[i].doc_name # d.doc_name
          /\ Len(store) + Len(d.texts) <= MaxChunks
          /\ store' = store \o NewRecords(d.texts, d.embeddings, d.doc_name)
    /\ UNCHANGED << rk_pc, rk_args, rk_result >>
    /\ UNCHANGED outsideRank

\* isinstance(v, list): a value that is no list is None in the model
IsList(v) == v # None

\* eps is 1e-12, to the precision of the window
_l2_normalize(v) ==
    Call1(LAMBDA n :
              IF ~FloatGreater(n.mag, FloatDivInt(FloatDivInt(FloatOfRatio(1, 10000), 10000), 10000)) THEN v
              ELSE List([ i \in DOMAIN v |-> Over(v[i], n) ]),
          Sqrt(Sum([ i \in DOMAIN v |-> Times(v[i], v[i]) ])))

\* the score a method gives vectors of two lengths
MismatchPenalty == [ neg |-> TRUE, mag |-> [ j \in 1..NumLimbs |-> IF j = 1 THEN 10 ^ 9 ELSE 0 ] ]

_cosine(a, b) ==
    IF Len(a) # Len(b) THEN Zero
    ELSE Call3(LAMBDA dot, na, nb :
                   IF ~IsZero(na) /\ ~IsZero(nb) THEN Over(dot, Times(na, nb)) ELSE Zero,
               Sum([ i \in DOMAIN a |-> Times(a[i], b[i]) ]),
               Sqrt(Sum([ i \in DOMAIN a |-> Times(a[i], a[i]) ])),
               Sqrt(Sum([ i \in DOMAIN b |-> Times(b[i], b[i]) ])))

_dot(a, b) ==
    IF Len(a) = Len(b) THEN Sum([ i \in DOMAIN a |-> Times(a[i], b[i]) ]) ELSE Zero

_neg_l2(a, b) ==
    IF Len(a) # Len(b) THEN MismatchPenalty
    ELSE Negative(Sqrt(Sum([ i \in DOMAIN a |-> Times(Minus(a[i], b[i]), Minus(a[i], b[i])) ])))

\* _neg_l1 with no look at the lengths: the sum over the zipped pairs,
\* which is what dot would give a mismatch were it unchecked
_neg_l1_Unchecked(a, b) ==
    Negative(Sum([ i \in 1..Min(Len(a), Len(b)) |-> [ neg |-> FALSE, mag |-> Minus(a[i], b[i]).mag ] ]))

_neg_l1(a, b) ==
    IF Len(a) # Len(b) THEN MismatchPenalty
    ELSE Negative(Sum([ i \in DOMAIN a |-> [ neg |-> FALSE, mag |-> Minus(a[i], b[i]).mag ] ]))

\* set(text.lower().split())
Tokens(text) == { Lower(text[i]) : i \in DOMAIN text }

_keyword_overlap(q_text, c_text) ==
    LET q_tokens == Tokens(q_text)
        c_tokens == Tokens(c_text)
    IN  IF q_tokens = {} \/ c_tokens = {} THEN Zero
        ELSE [ neg |-> FALSE,
               mag |-> FloatOfRatio(Cardinality(q_tokens \cap c_tokens),
                                    Cardinality(q_tokens \cup c_tokens)) ]

Methods == << "cosine", "dot", "neg_l2", "neg_l1", "hybrid" >>

calculate_all_similarities(query_embedding, chunk_embedding, chunk_text, query_text, normalize_vectors) ==
    Call2(LAMBDA q, c :
              Call1(LAMBDA cosine :
                        [ cosine |-> cosine,
                          dot |-> _dot(q, c),
                          neg_l2 |-> _neg_l2(q, c),
                          neg_l1 |-> _neg_l1(q, c),
                          hybrid |-> Plus(Times([ neg |-> FALSE, mag |-> FloatOfRatio(7, 10) ], cosine),
                                          Times([ neg |-> FALSE, mag |-> FloatOfRatio(3, 10) ], _keyword_overlap(query_text, chunk_text))) ],
                    _cosine(q, c)),
          IF normalize_vectors THEN _l2_normalize(query_embedding) ELSE query_embedding,
          IF normalize_vectors THEN _l2_normalize(chunk_embedding) ELSE chunk_embedding)

\* the loop over all_records: the records that carry an embedding list,
\* scored
RECURSIVE ChunksWithScores(_, _, _, _, _, _)
ChunksWithScores(all_records, query_embedding, query_text, normalize_vectors, i, acc) ==
    IF i > Len(all_records) THEN acc
    ELSE LET rec == all_records[i]
             emb == DictGet(rec, "embedding", None)
             text == DictGet(rec, "text", << >>)
         IN  ChunksWithScores(all_records, query_embedding, query_text, normalize_vectors, i + 1,
                 IF ~IsList(emb) THEN acc
                 ELSE Append(acc,
                          [ doc_name |-> DictGet(rec, "doc_name", "Unknown"),
                            text |-> text,
                            all_scores |-> calculate_all_similarities(
                                               query_embedding, emb, text, query_text, normalize_vectors),
                            chunk_length |-> StrLen(text, 1) ]))

\* sorted(xs, key) without reverse=True: ascending
SortedReverse_Ascending(xs, keys) ==
    LET before(i) == { j \in DOMAIN xs :
                         \/ Below(keys[j], keys[i])
                         \/ j < i /\ ~Below(keys[i], keys[j]) }
    IN  List([ p \in DOMAIN xs |-> xs[CHOOSE i \in DOMAIN xs : Cardinality(before(i)) = p - 1] ])

\* sorted(xs, key, reverse=True), keys[i] being the key of xs[i]: descending,
\* equal keys in their original order
SortedReverse(xs, keys) ==
    LET before(i) == { j \in DOMAIN xs :
                         \/ Below(keys[i], keys[j])
                         \/ j < i /\ ~Below(keys[j], keys[i]) }
    IN  List([ p \in DOMAIN xs |-> xs[CHOOSE i \in DOMAIN xs : Cardinality(before(i)) = p - 1] ])

\* xs[:k]
Slice(xs, k) ==
    IF k >= 0 THEN SubSeq(xs, 1, Min(k, Len(xs)))
    ELSE SubSeq(xs, 1, Max(Len(xs) + k, 0))

\* the top k chunks under one method
TopK(chunks_with_scores, method, k) ==
    Call1(LAMBDA top :
              List([ i \in DOMAIN top |->
                        [ doc_name |-> top[i].doc_name,
                          text |-> top[i].text,
                          all_scores |-> top[i].all_scores,
                          chunk_length |-> top[i].chunk_length,
                          rank |-> i,
                          primary_score |-> top[i].all_scores[method] ] ]),
          Slice(SortedReverse(chunks_with_scores,
                              List([ i \in DOMAIN chunks_with_scores |->
                                        chunks_with_scores[i].all_scores[method] ])), k))

\* min, max and sum / len of the scores of one method (the first of equal
\* values is the one min and max return)
SimilarityStats(scores) ==
    [ min |-> scores[CHOOSE i \in DOMAIN scores :
                        /\ \A j \in DOMAIN scores : ~Below(scores[j], scores[i])
                        /\ \A j \in 1..(i - 1) : Below(scores[i], scores[j])],
      max |-> scores[CHOOSE i \in DOMAIN scores :
                        /\ \A j \in DOMAIN scores : ~Below(scores[i], scores[j])
                        /\ \A j \in 1..(i - 1) : Below(scores[j], scores[i])],
      avg |-> OverInt(Sum(scores), Len(scores)) ]

\* the overlap taken as a share of the first method's chunks
Agreement_OfFirst(chunks_m1, chunks_m2, k) ==
    IF k > 0 /\ chunks_m1 # {}
    THEN RoundDecimal(FloatMulInt(FloatOfRatio(Cardinality(chunks_m1 \cap chunks_m2),
                                               Cardinality(chunks_m1)), 100), 10)
    ELSE 0

\* one cell of the agreement matrix, in tenths of a percent point
Agreement(chunks_m1, chunks_m2, k) ==
    IF k > 0
    THEN RoundDecimal(FloatMulInt(FloatOfRatio(Cardinality(chunks_m1 \cap chunks_m2), k), 100), 10)
    ELSE 0

method_agreement(top_k_by_method, k) ==
    [ m1 \in Range(Methods) |->
        [ m2 \in Range(Methods) |->
            Agreement({ top_k_by_method[m1][i].text : i \in DOMAIN top_k_by_method[m1] },
                      { top_k_by_method[m2][i].text : i \in DOMAIN top_k_by_method[m2] }, k) ] ]

\* what follows the scoring loop
Ranking(all_records, chunks_with_scores, k, doc_name) ==
    Call1(LAMBDA top_k_by_method :
              [ all_chunks_with_scores |-> chunks_with_scores,
                top_k_by_method |-> top_k_by_method,
                retrieval_details |->
                    [ retrieval_config |->
                          [ top_k |-> k,
                            doc_filter |-> doc_name,
                            total_chunks_available |-> Len(all_records) ],
                      similarity_stats |->
                          [ m \in Range(Methods) |->
                              SimilarityStats(List([ i \in DOMAIN chunks_with_scores |->
                                                        chunks_with_scores[i].all_scores[m] ])) ],
                      method_agreement |-> method_agreement(top_k_by_method, k) ] ],
          [ m \in Range(Methods) |-> TopK(chunks_with_scores, m, k) ])

\* the document filter not looked at for emptiness: the scoring loop runs
\* over the empty list
get_chunks_for_all_methods_Unchecked(query_text, k, doc_name, normalize_vectors, records) ==
    LET query_embedding == embed_query(query_text)
        filtering == doc_name # None /\ doc_name # Some("")
        all_records == IF filtering
                       THEN SelectSeq(records, LAMBDA r : "doc_name" \in DOMAIN r /\ r.doc_name = doc_name[1])
                       ELSE records
    IN  IF records = << >> THEN [ error |-> "No documents available" ]
        ELSE Call1(LAMBDA chunks_with_scores :
                       CASE chunks_with_scores # << >> ->
                                Ranking(all_records, chunks_with_scores, k, doc_name)
                         [] OTHER -> [ raised |-> "ValueError" ],
                   ChunksWithScores(all_records, query_embedding, query_text, normalize_vectors, 1, << >>))

\* doc_name is None or Some(name); records is what _load_records returns;
\* with no chunk scored, min() of the empty list raises
get_chunks_for_all_methods(query_text, k, doc_name, normalize_vectors, records) ==
    LET query_embedding == embed_query(query_text)
        filtering == doc_name # None /\ doc_name # Some("")
        all_records == IF filtering
                       THEN SelectSeq(records, LAMBDA r : "doc_name" \in DOMAIN r /\ r.doc_name = doc_name[1])
                       ELSE records
    IN  IF records = << >> THEN [ error |-> "No documents available" ]
        ELSE IF filtering /\ all_records = << >>
        THEN [ error |-> "No chunks for document: " \o doc_name[1] ]
        ELSE Call1(LAMBDA chunks_with_scores :
                       CASE chunks_with_scores # << >> ->
                                Ranking(all_records, chunks_with_scores, k, doc_name)
                         [] OTHER -> [ raised |-> "ValueError" ],
                   ChunksWithScores(all_records, query_embedding, query_text, normalize_vectors, 1, << >>))

GetChunksForAllMethods ==
    /\ rk_pc = "idle"
    /\ \E query_text \in Queries, k \in (-1)..MaxK, normalize_vectors \in BOOLEAN,
          doc_name \in { None, Some("a.pdf"), Some("b.pdf") } :
          /\ rk_args' = [ query_text |-> query_text, k |-> k, doc_name |-> doc_name,
                          normalize_vectors |-> normalize_vectors ]
          /\ rk_result' = Call1(LAMBDA records :
                                    get_chunks_for_all_methods(query_text, k, doc_name,
                                                               normalize_vectors, records),
                                store)
    /\ rk_pc' = IF "raised" \in DOMAIN rk_result' THEN "raised" ELSE "returned"
    /\ UNCHANGED store
    /\ UNCHANGED outsideRank

\* float("-inf"): a magnitude no window holds
NegativeInfinity == [ neg |-> TRUE, mag |-> << >> ]

\* the four vector scores of vector_store.py (_cosine_similarity, _dot,
\* _neg_l2, _neg_l1), which similarity_search ranks by
vector_store_scores(a, b) ==
    [ cosine |-> IF Len(a) # Len(b) THEN Zero
                 ELSE Call3(LAMBDA dot, na, nb :
                                IF IsZero(na) \/ IsZero(nb) THEN Zero ELSE Over(dot, Times(na, nb)),
                            Sum([ i \in DOMAIN a |-> Times(a[i], b[i]) ]),
                            Sqrt(Sum([ i \in DOMAIN a |-> Times(a[i], a[i]) ])),
                            Sqrt(Sum([ i \in DOMAIN b |-> Times(b[i], b[i]) ]))),
      dot |-> IF Len(a) # Len(b) THEN Zero
              ELSE Sum([ i \in DOMAIN a |-> Times(a[i], b[i]) ]),
      neg_l2 |-> IF Len(a) # Len(b) THEN MismatchPenalty
                 ELSE Negative(Sqrt(Sum([ i \in DOMAIN a |->
                                            Times(Minus(a[i], b[i]), Minus(a[i], b[i])) ]))),
      neg_l1 |-> IF Len(a) # Len(b) THEN MismatchPenalty
                 ELSE Negative(Sum([ i \in DOMAIN a |->
                                       [ neg |-> FALSE, mag |-> Minus(a[i], b[i]).mag ] ])) ]

\* the four vector scores of relations.py, which the document pairs are
\* ranked by (x ** 0.5 and x ** 2 are the square root and the square on the
\* vectors of the model)
relations_scores(a, b) ==
    [ cosine |-> IF Len(a) # Len(b) THEN Zero
                 ELSE Call3(LAMBDA dot, na, nb :
                                IF IsZero(na) \/ IsZero(nb) THEN Zero ELSE Over(dot, Times(na, nb)),
                            Sum([ i \in DOMAIN a |-> Times(a[i], b[i]) ]),
                            Sqrt(Sum([ i \in DOMAIN a |-> Times(a[i], a[i]) ])),
                            Sqrt(Sum([ i \in DOMAIN b |-> Times(b[i], b[i]) ]))),
      dot |-> IF Len(a) # Len(b) THEN Zero
              ELSE Sum([ i \in DOMAIN a |-> Times(a[i], b[i]) ]),
      neg_l2 |-> IF Len(a) # Len(b) THEN NegativeInfinity
                 ELSE Negative(Sqrt(Sum([ i \in DOMAIN a |->
                                            Times(Minus(a[i], b[i]), Minus(a[i], b[i])) ]))),
      neg_l1 |-> IF Len(a) # Len(b) THEN NegativeInfinity
                 ELSE Negative(Sum([ i \in DOMAIN a |->
                                       [ neg |-> FALSE, mag |-> Minus(a[i], b[i]).mag ] ])) ]

\* the four vector scores of calculate_all_similarities (qa.py)
qa_scores(a, b) ==
    [ cosine |-> _cosine(a, b), dot |-> _dot(a, b), neg_l2 |-> _neg_l2(a, b), neg_l1 |-> _neg_l1(a, b) ]

\* one record of the store scored against the query's vector by the
\* scoring functions of one of the three modules
ScoreRecord ==
    /\ rk_pc = "idle"
    /\ \E query_text \in Queries, i \in DOMAIN store,
          module \in { "qa", "vector_store", "relations" } :
          /\ IsList(store[i].embedding)
          /\ rk_args' = [ module |-> module, a |-> embed_query(query_text), b |-> store[i].embedding ]
          /\ rk_result' = Call2(LAMBDA a, b :
                                    CASE module = "qa" -> qa_scores(a, b)
                                      [] module = "vector_store" -> vector_store_scores(a, b)
                                      [] module = "relations" -> relations_scores(a, b),
                                embed_query(query_text), store[i].embedding)
    /\ rk_pc' = "scored"
    /\ UNCHANGED store
    /\ UNCHANGED outsideRank

\* =====================================================================
\* run_counterfactual_analysis (extended_analysis.py): the perturbed chunk
\* list, the two answers, the metrics and the lists returned
\* =====================================================================
CounterfactualTypes == { "remove_top", "remove_top_3", "reverse_order", "random", "lexical_only" }

\* the list from its second element on, the first moved to the end
Reversed_Rotated(xs) == IF xs = << >> THEN xs ELSE Tail(xs) \o << Head(xs) >>

\* list(reversed(xs))
Reversed(xs) == List([ i \in 1..Len(xs) |-> xs[Len(xs) + 1 - i] ])

\* remove_top taking the last chunk away instead of the first
CounterfactualChunks_DropLast(original_chunks, counterfactual_type, shuffle) ==
    CASE counterfactual_type = "remove_top" ->
             IF Len(original_chunks) > 1 THEN SubSeq(original_chunks, 1, Len(original_chunks) - 1) ELSE << >>
      [] counterfactual_type = "remove_top_3" ->
             IF Len(original_chunks) > 3 THEN SubSeq(original_chunks, 4, Len(original_chunks)) ELSE << >>
      [] counterfactual_type = "reverse_order" -> Reversed(original_chunks)
      [] counterfactual_type = "random" ->
             List([ i \in DOMAIN original_chunks |-> original_chunks[shuffle[i]] ])
      [] counterfactual_type = "lexical_only" -> original_chunks

\* the chunks of each counterfactual type, shuffle being the order
\* random.shuffle leaves the copy in
CounterfactualChunks(original_chunks, counterfactual_type, shuffle) ==
    CASE counterfactual_type = "remove_top" ->
             IF Len(original_chunks) > 1 THEN SubSeq(original_chunks, 2, Len(original_chunks)) ELSE << >>
      [] counterfactual_type = "remove_top_3" ->
             IF Len(original_chunks) > 3 THEN SubSeq(original_chunks, 4, Len(original_chunks)) ELSE << >>
      [] counterfactual_type = "reverse_order" -> Reversed(original_chunks)
      [] counterfactual_type = "random" ->
             List([ i \in DOMAIN original_chunks |-> original_chunks[shuffle[i]] ])
      [] counterfactual_type = "lexical_only" -> original_chunks

\* the answers the language model gives, and the one returned without a call
LLMAnswers == { S_Paris, S_Sunny }
\* an answer to the counterfactual context of one word
CollapsedAnswer == << "Italy." >>
NoChunksAnswer == << "Unable", "to", "answer", "-", "no", "chunks", "available." >>

\* the sentence transformer on two answers: 0.0 when unavailable, the
\* clamped cosine otherwise (1 for one text twice)
_calculate_semantic_similarity(text1, text2, model) ==
    IF model = "unavailable" THEN ZeroFloat
    ELSE Call1(LAMBDA similarity :
                   FloatMax(ZeroFloat, IF FloatGreater(similarity, OneFloat) THEN OneFloat ELSE similarity),
               IF text1 = text2 THEN OneFloat ELSE CosSim(model))

\* ROUGE-L F-measure of the rouge_score package on the answers of the
\* model: 1 for one text twice, 2PR / (P + R) = 0.2 for the two answers of
\* the language model (one common word of 6 and of 4), 0 with no common word
_calculate_rouge_l(text1, text2) ==
    IF text1 = text2 THEN OneFloat
    ELSE IF { text1, text2 } = LLMAnswers THEN FloatOfRatio(1, 5)
    ELSE ZeroFloat

\* the dependence taken from the dissimilarity whatever the chunk overlap
calculate_counterfactual_metrics_AlwaysInverse(original_answer, counterfactual_answer, original_chunks, counterfactual_chunks, counterfactual_type, model) ==
    Call3(LAMBDA jaccard_similarity, semantic_similarity, chunk_overlap :
              Call1(LAMBDA answer_similarity :
                        [ counterfactual_type |-> counterfactual_type,
                          answer_similarity |-> RoundDecimal(answer_similarity, 1000),
                          answer_similarity_semantic |-> RoundDecimal(semantic_similarity, 1000),
                          answer_similarity_rouge_l |->
                              RoundDecimal(_calculate_rouge_l(original_answer, counterfactual_answer), 1000),
                          answer_similarity_jaccard |-> RoundDecimal(jaccard_similarity, 1000),
                          chunk_overlap |-> RoundDecimal(chunk_overlap, 1000),
                          retrieval_dependence |->
                              RoundDecimal(FloatSub(OneFloat, answer_similarity), 1000),
                          original_answer_length |-> StrLen(original_answer, 1),
                          counterfactual_answer_length |-> StrLen(counterfactual_answer, 1),
                          answer_collapsed |->
                              FloatGreater(FloatMul(FloatOfInt(StrLen(original_answer, 1)).mag, FloatOfRatio(1, 2)),
                                           FloatOfInt(StrLen(counterfactual_answer, 1)).mag) ],
                    IF FloatGreater(semantic_similarity, ZeroFloat)
                    THEN semantic_similarity ELSE jaccard_similarity),
          _calculate_text_similarity(original_answer, counterfactual_answer),
          _calculate_semantic_similarity(original_answer, counterfactual_answer, model),
          LET original_texts == { DictGet(c, "text", << >>) : c \in Range(original_chunks) }
              counterfactual_texts == { DictGet(c, "text", << >>) : c \in Range(counterfactual_chunks) }
          IN  IF original_texts # {}
              THEN FloatOfRatio(Cardinality(original_texts \cap counterfactual_texts),
                                Cardinality(original_texts))
              ELSE ZeroFloat)

calculate_counterfactual_metrics(original_answer, counterfactual_answer, original_chunks, counterfactual_chunks, counterfactual_type, model) ==
    Call3(LAMBDA jaccard_similarity, semantic_similarity, chunk_overlap :
              Call1(LAMBDA answer_similarity :
                        [ counterfactual_type |-> counterfactual_type,
                          answer_similarity |-> RoundDecimal(answer_similarity, 1000),
                          answer_similarity_semantic |-> RoundDecimal(semantic_similarity, 1000),
                          answer_similarity_rouge_l |->
                              RoundDecimal(_calculate_rouge_l(original_answer, counterfactual_answer), 1000),
                          answer_similarity_jaccard |-> RoundDecimal(jaccard_similarity, 1000),
                          chunk_overlap |-> RoundDecimal(chunk_overlap, 1000),
                          retrieval_dependence |->
                              RoundDecimal(IF FloatGreater(FloatOfRatio(1, 2), chunk_overlap)
                                           THEN FloatSub(OneFloat, answer_similarity)
                                           ELSE answer_similarity, 1000),
                          original_answer_length |-> StrLen(original_answer, 1),
                          counterfactual_answer_length |-> StrLen(counterfactual_answer, 1),
                          answer_collapsed |->
                              FloatGreater(FloatMul(FloatOfInt(StrLen(original_answer, 1)).mag, FloatOfRatio(1, 2)),
                                           FloatOfInt(StrLen(counterfactual_answer, 1)).mag) ],
                    IF FloatGreater(semantic_similarity, ZeroFloat)
                    THEN semantic_similarity ELSE jaccard_similarity),
          _calculate_text_similarity(original_answer, counterfactual_answer),
          _calculate_semantic_similarity(original_answer, counterfactual_answer, model),
          LET original_texts == { DictGet(c, "text", << >>) : c \in Range(original_chunks) }
              counterfactual_texts == { DictGet(c, "text", << >>) : c \in Range(counterfactual_chunks) }
          IN  IF original_texts # {}
              THEN FloatOfRatio(Cardinality(original_texts \cap counterfactual_texts),
                                Cardinality(original_texts))
              ELSE ZeroFloat)

\* original_answer is None or Some(answer); generated and cf_generated are
\* what the language model answers if asked for the original and for the
\* counterfactual context
run_counterfactual_analysis(original_chunks, counterfactual_type, original_answer, generated, cf_generated, shuffle, model) ==
    IF counterfactual_type \notin CounterfactualTypes
    THEN [ raised |-> "ValueError", message |-> "Unknown counterfactual type: " \o counterfactual_type ]
    ELSE Call3(LAMBDA counterfactual_chunks, answer, cf_answer :
                   [ counterfactual_type |-> counterfactual_type,
                     original_answer |-> answer,
                     counterfactual_answer |-> cf_answer,
                     original_chunks_count |-> Len(original_chunks),
                     counterfactual_chunks_count |-> Len(counterfactual_chunks),
                     metrics |-> calculate_counterfactual_metrics(answer, cf_answer, original_chunks,
                                     counterfactual_chunks, counterfactual_type, model),
                     original_chunks |->
                         List([ i \in DOMAIN original_chunks |->
                                   [ text |-> DictGet(original_chunks[i], "text", << >>),
                                     doc_name |-> DictGet(original_chunks[i], "doc_name", "Unknown"),
                                     score |-> DictGet(original_chunks[i], "score", 0) ] ]),
                     chunks_used |->
                         List([ idx \in DOMAIN counterfactual_chunks |->
                                   [ text |-> DictGet(counterfactual_chunks[idx], "text", << >>),
                                     doc_name |-> DictGet(counterfactual_chunks[idx], "doc_name", "Unknown"),
                                     score |-> DictGet(counterfactual_chunks[idx], "score", 0),
                                     rank |-> DictGet(counterfactual_chunks[idx], "rank", idx) ] ]) ],
               CounterfactualChunks(original_chunks, counterfactual_type, shuffle),
               IF original_answer = None THEN generated ELSE original_answer[1],
               IF CounterfactualChunks(original_chunks, counterfactual_type, shuffle) # << >>
               THEN cf_generated ELSE NoChunksAnswer)

\* the language model is called with an unknown type too, for the original
\* answer, before the type is looked at
LLMCalls_GenerateFirst(original_chunks, counterfactual_type, original_answer, shuffle) ==
    (IF original_answer = None THEN << original_chunks >> ELSE << >>)
    \o (IF counterfactual_type \in CounterfactualTypes
           /\ CounterfactualChunks(original_chunks, counterfactual_type, shuffle) # << >>
        THEN << CounterfactualChunks(original_chunks, counterfactual_type, shuffle) >> ELSE << >>)

\* the calls of llm.complete the function makes, each given by the chunks its
\* prompt is built from: none when the type is unknown (the raise comes
\* before LLMClient() is built), else one for the original answer unless it
\* was passed in, and one for the counterfactual answer unless there are no
\* counterfactual chunks
LLMCalls(original_chunks, counterfactual_type, original_answer, shuffle) ==
    IF counterfactual_type \notin CounterfactualTypes
    THEN << >>
    ELSE (IF original_answer = None THEN << original_chunks >> ELSE << >>)
         \o (IF CounterfactualChunks(original_chunks, counterfactual_type, shuffle) # << >>
             THEN << CounterfactualChunks(original_chunks, counterfactual_type, shuffle) >> ELSE << >>)

\* random shuffling the caller's list itself, not a copy of it
CallerChunksAfter_ShuffledInPlace(original_chunks, counterfactual_type, shuffle) ==
    IF counterfactual_type = "random"
    THEN List([ i \in DOMAIN original_chunks |-> original_chunks[shuffle[i]] ])
    ELSE original_chunks

\* the caller's list after the call: every branch builds a new list (a
\* slice, list(reversed(...)), .copy()), and random.shuffle works on the
\* copy, so no statement writes to original_chunks
CallerChunksAfter(original_chunks, counterfactual_type, shuffle) == original_chunks

\* the chunk lists a client sends: any list of at most MaxOriginal chunks
OriginalChunkLists == UNION { [ 1..n -> { C_paris, C_rome, C_notext } ] : n \in 0..MaxOriginal }

CounterfactualIdle ==
    /\ cf_pc = "idle"
    /\ cf_args = None
    /\ cf_prev = None
    /\ cf_result = None
    /\ cf_llm_calls = << >>
    /\ cf_caller_chunks = None
    /\ cf_chunks = None

\* the orders random.shuffle leaves a list of n chunks in, of which the
\* model draws three: as it was, reversed, rotated by one
Shuffles(n) ==
    { [ i \in 1..n |-> i ], [ i \in 1..n |-> n + 1 - i ], [ i \in 1..n |-> (i % n) + 1 ] }

\* one call with the arguments given; the answers of the language model
\* and the shuffle are those of the call
CounterfactualCall(original_chunks, counterfactual_type, original_answer, model) ==
    \E generated \in IF original_answer = None /\ counterfactual_type \in CounterfactualTypes
                     THEN LLMAnswers ELSE { S_Paris },
       cf_generated \in IF counterfactual_type \in CounterfactualTypes
                           /\ CounterfactualChunks(original_chunks, counterfactual_type,
                                                   [ i \in DOMAIN original_chunks |-> i ]) # << >>
                        THEN LLMAnswers \cup { CollapsedAnswer } ELSE { S_Paris },
       shuffle \in IF counterfactual_type = "random"
                   THEN Shuffles(Len(original_chunks))
                   ELSE { [ i \in DOMAIN original_chunks |-> i ] } :
          /\ cf_args' = [ original_chunks |-> original_chunks,
                          counterfactual_type |-> counterfactual_type,
                          original_answer |-> original_answer,
                          model |-> model ]
          /\ cf_result' = run_counterfactual_analysis(original_chunks, counterfactual_type,
                              original_answer, generated, cf_generated, shuffle, model)
          /\ cf_llm_calls' = LLMCalls(original_chunks, counterfactual_type, original_answer, shuffle)
          /\ cf_caller_chunks' = CallerChunksAfter(original_chunks, counterfactual_type, shuffle)
          /\ cf_chunks' = IF counterfactual_type \in CounterfactualTypes
                          THEN CounterfactualChunks(original_chunks, counterfactual_type, shuffle)
                          ELSE None
          /\ cf_pc' = IF counterfactual_type \in CounterfactualTypes THEN "returned" ELSE "raised"

\* strategy names a client may send that the function does not know
UnknownTypes == { "semantic_only", "REMOVE_TOP" }

\* POST /counterfactual-analysis with the chunks of a retrieval
RunCounterfactualAnalysis ==
    /\ cf_pc = "idle"
    /\ \E original_chunks \in OriginalChunkLists,
          counterfactual_type \in CounterfactualTypes \cup UnknownTypes,
          original_answer \in { None, Some(S_Paris) },
          model \in Transformers :
          CounterfactualCall(original_chunks, counterfactual_type, original_answer, model)
    /\ cf_prev' = None
    /\ UNCHANGED outsideCounterfactual

\* a reverse_order request again, with the chunks_used it returned in the
\* place of original_chunks
RepeatCounterfactual ==
    /\ cf_pc = "returned"
    /\ cf_prev = None
    /\ cf_args.counterfactual_type = "reverse_order"
    /\ CounterfactualCall(cf_result.chunks_used, cf_args.counterfactual_type,
                          cf_args.original_answer, cf_args.model)
    /\ cf_prev' = [ original_chunks |-> cf_args.original_chunks,
                    counterfactual_type |-> cf_args.counterfactual_type ]
    /\ UNCHANGED outsideCounterfactual

\* =====================================================================
\* Insights (insights.py)
\*
\* A raw response is the lines of the text, each line the tokens on it: the
\* punctuation of JSON, string and number literals, a code fence, and words
\* of prose.  Parsed JSON values carry their Python type.  A text (summary,
\* question, answer) is the sequence of its words; the '...' the summary
\* ends in is a token of its own.
\* =====================================================================
\* the three backquotes a fenced line starts with
Fence == "fence"
StringLiterals == { "\"summary\"", "\"entities\"", "\"sentence_importance\"", "\"sentence\"", "\"score\"", "\"name\"", "\"type\"", "\"Paris\"", "\"city\"", "\"Short\"", "\"\"" }
NumberLiterals == { "5", "2" }

\* the str a string literal stands for, as words; the int of a number literal
Unquote(tok) ==
    CASE tok = "\"summary\"" -> << "summary" >>
      [] tok = "\"entities\"" -> << "entities" >>
      [] tok = "\"sentence_importance\"" -> << "sentence_importance" >>
      [] tok = "\"sentence\"" -> << "sentence" >>
      [] tok = "\"score\"" -> << "score" >>
      [] tok = "\"name\"" -> << "name" >>
      [] tok = "\"type\"" -> << "type" >>
      [] tok = "\"Paris\"" -> << "Paris" >>
      [] tok = "\"city\"" -> << "city" >>
      [] tok = "\"Short\"" -> << "Short" >>
      [] tok = "\"\"" -> << >>
IntOf(tok) == CASE tok = "5" -> 5 [] tok = "2" -> 2

PyStr(words) == [ type |-> "str", v |-> words ]
PyInt(n) == [ type |-> "int", v |-> n ]
PyList(items) == [ type |-> "list", v |-> items ]
PyDict(d) == [ type |-> "dict", v |-> d ]
EmptyDict == PyDict(<< >>)
\* d[key] = value
DictSet(d, key, value) == [ k \in DOMAIN d \cup { key } |-> IF k = key THEN value ELSE d[k] ]

\* json.loads on the tokens of a text: the value at position i and the
\* position after it, or a JSONDecodeError
JSONDecodeError == [ ok |-> FALSE ]
RECURSIVE ParseValue(_, _)
RECURSIVE ParseElements(_, _, _)
RECURSIVE ParseMembers(_, _, _)
ParseValue(ts, i) ==
    IF i > Len(ts) THEN JSONDecodeError
    ELSE CASE ts[i] \in StringLiterals -> [ ok |-> TRUE, value |-> PyStr(Unquote(ts[i])), next |-> i + 1 ]
           [] ts[i] \in NumberLiterals -> [ ok |-> TRUE, value |-> PyInt(IntOf(ts[i])), next |-> i + 1 ]
           [] ts[i] = "[" ->
                IF i + 1 <= Len(ts) /\ ts[i + 1] = "]"
                THEN [ ok |-> TRUE, value |-> PyList(<< >>), next |-> i + 2 ]
                ELSE ParseElements(ts, i + 1, << >>)
           [] ts[i] = "{" ->
                IF i + 1 <= Len(ts) /\ ts[i + 1] = "}"
                THEN [ ok |-> TRUE, value |-> EmptyDict, next |-> i + 2 ]
                ELSE ParseMembers(ts, i + 1, << >>)
           [] OTHER -> JSONDecodeError
ParseElements(ts, i, acc) ==
    LET item == ParseValue(ts, i)
    IN  IF ~item.ok \/ item.next > Len(ts) THEN JSONDecodeError
        ELSE CASE ts[item.next] = "," -> ParseElements(ts, item.next + 1, Append(acc, item.value))
               [] ts[item.next] = "]" -> [ ok |-> TRUE, value |-> PyList(Append(acc, item.value)), next |-> item.next + 1 ]
               [] OTHER -> JSONDecodeError
ParseMembers(ts, i, acc) ==
    IF i + 1 > Len(ts) \/ ts[i] \notin StringLiterals \/ ts[i + 1] # ":" THEN JSONDecodeError
    ELSE LET item == ParseValue(ts, i + 2)
         IN  IF ~item.ok \/ item.next > Len(ts) THEN JSONDecodeError
             ELSE CASE ts[item.next] = "," -> ParseMembers(ts, item.next + 1, DictSet(acc, Unquote(ts[i]), item.value))
                    [] ts[item.next] = "}" -> [ ok |-> TRUE, value |-> PyDict(DictSet(acc, Unquote(ts[i]), item.value)), next |-> item.next + 1 ]
                    [] OTHER -> JSONDecodeError
json_loads(ts) ==
    LET parsed == ParseValue(ts, 1)
    IN  IF parsed.ok /\ parsed.next = Len(ts) + 1 THEN parsed ELSE JSONDecodeError

\* the lines between the code fences
RECURSIVE CodeLines(_, _, _, _)
CodeLines(lines, i, in_code, code_lines) ==
    IF i > Len(lines) THEN code_lines
    ELSE IF lines[i] # << >> /\ lines[i][1] = Fence THEN CodeLines(lines, i + 1, ~in_code, code_lines)
    ELSE CodeLines(lines, i + 1, in_code, IF in_code THEN Append(code_lines, lines[i]) ELSE code_lines)

\* "\n".join(lines), as tokens
RECURSIVE JoinLines(_)
JoinLines(lines) == IF lines = << >> THEN << >> ELSE Head(lines) \o JoinLines(Tail(lines))

\* re.sub(r',(\s*[}\]])', r'\1', snippet)
DropTrailingCommas(ts) ==
    LET keep == { i \in DOMAIN ts : ~(ts[i] = "," /\ i < Len(ts) /\ ts[i + 1] \in { "}", "]" }) }
        RECURSIVE Kept(_)
        Kept(i) == IF i > Len(ts) THEN << >>
                   ELSE IF i \in keep THEN << ts[i] >> \o Kept(i + 1) ELSE Kept(i + 1)
    IN  Kept(1)

_extract_json_from_response(raw) ==
    LET unfenced == IF raw # << >> /\ raw[1] # << >> /\ raw[1][1] = Fence
                    THEN CodeLines(raw, 1, FALSE, << >>) ELSE raw
        text == JoinLines(unfenced)
        opens == { i \in DOMAIN text : text[i] = "{" }
        closes == { i \in DOMAIN text : text[i] = "}" }
        start == CHOOSE i \in opens : \A j \in opens : i <= j
        end == CHOOSE i \in closes : \A j \in closes : i >= j
    IN  IF opens = {} \/ closes = {} THEN EmptyDict
        ELSE IF end <= start THEN EmptyDict
        ELSE LET snippet == SubSeq(text, start, end)
                 first == json_loads(snippet)
                 second == json_loads(DropTrailingCommas(snippet))
             IN  IF first.ok THEN first.value
                 ELSE IF second.ok THEN second.value
                 ELSE EmptyDict

\* bool(value) of a parsed value (None is << >>)
Truthy(value) ==
    IF value = None THEN FALSE
    ELSE CASE value.type = "int" -> value.v # 0
           [] value.type = "dict" -> DOMAIN value.v # {}
           [] OTHER -> value.v # << >>

\* str(value) of a str or an int
PyStrOf(value) ==
    CASE value.type = "str" -> value.v
      [] value.type = "int" -> << ToString(value.v) >>

\* len(w) of the words questions are made of
WordLength(w) ==
    CASE w = "What" -> 4
      [] w = "is" -> 2
      [] w = "the" -> 3
      [] w = "capital" -> 7
      [] w = "Capital" -> 7
      [] w = "of" -> 2
      [] w = "France" -> 6

SummaryWords == 50
MaxKeywords == 10

\* [w.lower() for w in question.split() if len(w) > 3][:10]
QuestionKeywords(question) ==
    LET long == SelectSeq(question, LAMBDA w : WordLength(w) > 3)
    IN  LowerText(SubSeq(long, 1, Min(MaxKeywords, Len(long))))

\* list(set(xs)): the elements of xs once each, in an order of the set's
KeywordOrders(xs) ==
    { order \in UNION { [ 1..n -> Range(xs) ] : n \in { Cardinality(Range(xs)) } } : Range(order) = Range(xs) }

\* the echo of the answer cut at fifty words without the mark that it was cut
_get_default_insights_NoEllipsis(question, answer, keywords) ==
    [ summary |-> SubSeq(answer, 1, Min(SummaryWords, Len(answer))),
      key_points |-> << << "Information", "extracted", "from", "context" >> >>,
      entities |-> << >>,
      suggested_questions |-> << << "Can", "you", "provide", "more", "details?" >> >>,
      mindmap |-> << << "Main", "Topic" >>, << "-", "Key", "Point" >> >>,
      reading_difficulty |-> << "intermediate" >>,
      sentiment |-> << "neutral" >>,
      keywords |-> keywords,
      sentence_importance |-> << >> ]

_get_default_insights(question, answer, keywords) ==
    [ summary |-> SubSeq(answer, 1, Min(SummaryWords, Len(answer)))
                      \o (IF Len(answer) > SummaryWords THEN << "..." >> ELSE << >>),
      key_points |-> << << "Information", "extracted", "from", "context" >> >>,
      entities |-> << >>,
      suggested_questions |-> << << "Can", "you", "provide", "more", "details?" >> >>,
      mindmap |-> << << "Main", "Topic" >>, << "-", "Key", "Point" >> >>,
      reading_difficulty |-> << "intermediate" >>,
      sentiment |-> << "neutral" >>,
      keywords |-> keywords,
      sentence_importance |-> << >> ]

Key(name) == << name >>

\* one item of as_list_of_str; "Paris (city)" is the words Paris ( city )
ItemAsStr(item) ==
    CASE item.type = "str" -> item.v
      [] item.type = "int" -> << ToString(item.v) >>
      [] item.type = "dict" ->
           LET name == DictGet(item.v, Key("name"), None)
               type == DictGet(item.v, Key("type"), None)
               t == IF Truthy(type) THEN type ELSE DictGet(item.v, Key("category"), None)
           IN  CASE Truthy(name) /\ Truthy(t) -> PyStrOf(name) \o << "(" >> \o PyStrOf(t) \o << ")" >>
                 [] Truthy(name) /\ ~Truthy(t) -> PyStrOf(name)

as_list_of_str(value) ==
    IF value = None THEN << >>
    ELSE IF value.type # "list" THEN << >>
    ELSE [ i \in DOMAIN value.v |-> ItemAsStr(value.v[i]) ]

\* str(data.get(key, "") or default)
StrOr(data, key, default) ==
    LET value == DictGet(data, Key(key), PyStr(<< >>))
    IN  IF Truthy(value) THEN PyStrOf(value) ELSE default

\* int(item.get("score", 0)), 0 on TypeError and ValueError; no string of
\* the model spells a number
ScoreOf(item) ==
    LET value == DictGet(item, Key("score"), PyInt(0))
    IN  IF value # None /\ value.type = "int" THEN value.v ELSE 0

RECURSIVE SentenceImportance(_, _, _)
SentenceImportance(sent_raw, i, sentence_importance) ==
    IF i > Len(sent_raw) THEN sentence_importance
    ELSE LET item == sent_raw[i]
             text == IF item.type = "dict" THEN StrOr(item.v, "sentence", << >>) ELSE << >>
             score == Max(0, Min(5, ScoreOf(item.v)))
         IN  IF item.type # "dict" \/ text = << >> THEN SentenceImportance(sent_raw, i + 1, sentence_importance)
             ELSE IF score >= 3
             THEN SentenceImportance(sent_raw, i + 1, Append(sentence_importance, [ sentence |-> text, score |-> score ]))
             ELSE SentenceImportance(sent_raw, i + 1, sentence_importance)

\* the dict built from a parsed object that is not empty
InsightsFrom(data, question, answer, keywords) ==
    LET summary == StrOr(data, "summary", << >>)
        key_points == as_list_of_str(DictGet(data, Key("key_points"), PyList(<< >>)))
        suggested_questions == as_list_of_str(DictGet(data, Key("suggested_questions"), PyList(<< >>)))
        given_keywords == as_list_of_str(DictGet(data, Key("keywords"), PyList(<< >>)))
        mindmap_raw == DictGet(data, Key("mindmap"), PyStr(<< >>))
        mindmap == IF mindmap_raw # None /\ mindmap_raw.type = "list" THEN as_list_of_str(mindmap_raw)
                   ELSE IF Truthy(mindmap_raw) THEN << PyStrOf(mindmap_raw) >> ELSE << >>
        highlights_raw == DictGet(data, Key("highlights"), PyList(<< >>))
        sent_raw == DictGet(data, Key("sentence_importance"), PyList(<< >>))
    IN  [ summary |-> IF summary = << >> THEN _get_default_insights(question, answer, keywords).summary ELSE summary,
          key_points |-> IF key_points = << >> THEN << << "Information", "from", "context" >> >> ELSE key_points,
          entities |-> as_list_of_str(DictGet(data, Key("entities"), PyList(<< >>))),
          suggested_questions |-> IF suggested_questions = << >>
                                  THEN << << "Can", "you", "elaborate", "on", "this?" >> >>
                                  ELSE suggested_questions,
          mindmap |-> IF mindmap = << >> \/ mindmap = << << >> >>
                      THEN << << "Topic" >>, << "-", "Key", "Information" >> >> ELSE mindmap,
          reading_difficulty |-> StrOr(data, "reading_difficulty", << "intermediate" >>),
          sentiment |-> StrOr(data, "sentiment", << "neutral" >>),
          keywords |-> IF given_keywords = << >> THEN keywords ELSE given_keywords,
          highlights |-> IF highlights_raw # None /\ highlights_raw.type = "list"
                         THEN [ i \in DOMAIN highlights_raw.v |-> as_list_of_str(highlights_raw.v[i]) ]
                         ELSE << >>,
          sentence_importance |-> IF sent_raw # None /\ sent_raw.type = "list"
                                  THEN SentenceImportance(sent_raw.v, 1, << >>) ELSE << >> ]

\* completion is what llm.complete did: it raised, or returned a raw text
generate_insights(question, answer, completion, keywords) ==
    IF "raised" \in DOMAIN completion THEN _get_default_insights(question, answer, keywords)
    ELSE LET data == Call1(_extract_json_from_response, completion.raw)
         IN  IF ~Truthy(data) \/ data.type # "dict" THEN _get_default_insights(question, answer, keywords)
             ELSE InsightsFrom(data.v, question, answer, keywords)

\* ---- the calls the model makes
JsonSummary == << "{", "\"summary\"", ":", "\"Short\"", ",", "\"entities\"", ":", "[", "\"Paris\"", "]", "}" >>
JsonEntity == << "{", "\"entities\"", ":", "[", "{", "\"name\"", ":", "\"Paris\"", ",", "\"type\"", ":", "\"city\"", "}", "]", "}" >>
JsonImportance == << "{", "\"sentence_importance\"", ":", "[", "{", "\"sentence\"", ":", "\"Paris\"", ",", "\"score\"", ":", "5", "}", ",", "{", "\"sentence\"", ":", "\"Short\"", ",", "\"score\"", ":", "2", "}", "]", "}" >>
JsonEmpty == << "{", "}" >>
JsonBlankSummary == << "{", "\"summary\"", ":", "\"\"", "}" >>
JsonTexts == { JsonSummary, JsonEntity, JsonImportance, JsonEmpty, JsonBlankSummary }

\* a text with one token left out, or with one token more
WithoutToken(ts, i) == SubSeq(ts, 1, i - 1) \o SubSeq(ts, i + 1, Len(ts))
WithToken(ts, i, tok) == SubSeq(ts, 1, i) \o << tok >> \o SubSeq(ts, i + 1, Len(ts))
Damaged(ts) ==
    { WithoutToken(ts, i) : i \in DOMAIN ts }
        \cup { WithToken(ts, i, tok) : i \in 0..Len(ts), tok \in { "Sure", ",", "}" } }

RawResponses ==
    { << >>, << << "Sure", "here", "it", "is" >> >>, << << "}", "Sure", "{" >> >> }
        \cup { << ts >> : ts \in JsonTexts }
        \cup { << ts >> : ts \in UNION { Damaged(t) : t \in JsonTexts } }
        \cup { << << Fence, "json" >>, ts, << Fence >> >> : ts \in JsonTexts }
        \cup { << << Fence >>, ts >> : ts \in JsonTexts }
        \cup { << << Fence >>, << "Sure" >>, << Fence >>, ts >> : ts \in JsonTexts }
        \cup { << << "Sure", "here", "it", "is" >>, ts, << "Sure" >> >> : ts \in JsonTexts }
        \cup { << SubSeq(ts, 1, 1), SubSeq(ts, 2, Len(ts)) >> : ts \in JsonTexts }

Completions == { [ raised |-> "APIError" ] } \cup { [ raw |-> raw ] : raw \in RawResponses }

\* the answer of n words
AnswerOf(n) == [ i \in 1..n |-> ToString(i) ]
AnswerLengths == { n \in 0..MaxAnswerWords : n <= 1 \/ n >= SummaryWords - 1 }
InsightQuestions == { << >>, << "What", "is", "the", "capital" >>, << "Capital", "of", "France", "capital" >> }

InsightsIdle ==
    /\ in_pc = "idle"
    /\ in_args = None
    /\ in_result = None

GenerateInsights ==
    /\ in_pc = "idle"
    /\ \E question \in InsightQuestions, n \in AnswerLengths, completion \in Completions :
          \E keywords \in KeywordOrders(QuestionKeywords(question)) :
              /\ in_args' = [ question |-> question, answer |-> AnswerOf(n), completion |-> completion ]
              /\ in_result' = generate_insights(question, AnswerOf(n), completion, keywords)
    /\ in_pc' = "returned"
    /\ UNCHANGED outsideInsights

\* =====================================================================
\* Specifications
\* =====================================================================
\* no call is in progress
Init == BatchIdle /\ CritiqueIdle /\ FaithIdle /\ QualityIdle /\ RankIdle /\ CounterfactualIdle /\ InsightsIdle

NextBatch == RunBatchExperiment \/ BatchRun \/ BatchRunStalls \/ BatchReturn \/ ExportToCsv
SpecBatch == Init /\ [][NextBatch]_vars
\* the loop goes on as long as the calls of its runs return
SpecBatchFair == SpecBatch /\ WF_vars(BatchRun) /\ WF_vars(BatchReturn)

NextCritique ==
    \/ CritiqueFromBatch
    \/ CritiqueFromAnalyze
    \/ CritiqueFromRoute
    \/ CritiqueDraft
    \/ Improve
    \/ Redraft
    \/ Terminate
SpecCritique == Init /\ [][NextCritique]_vars
\* every call of the loop returns, so a step that can be taken is taken
SpecCritiqueFair == SpecCritique /\ WF_vars(NextCritique)

NextFaith == CalculateFaithfulnessMetrics
SpecFaith == Init /\ [][NextFaith]_vars

NextQuality == CalculateRetrievalQualityMetrics
SpecQuality == Init /\ [][NextQuality]_vars

NextRanker == AddEmbeddings \/ GetChunksForAllMethods \/ ScoreRecord
SpecRanker == Init /\ [][NextRanker]_vars

NextCounterfactual == RunCounterfactualAnalysis \/ RepeatCounterfactual
SpecCounterfactual == Init /\ [][NextCounterfactual]_vars

NextInsights == GenerateInsights
SpecInsights == Init /\ [][NextInsights]_vars

\* ---------------------------------------------------------------- C3, C4
\* C3: in every state of the critique loop in which a round has been
\* recorded, len(rounds) is 1 or 2 and at most max_rounds, max_rounds being 2
\* when self_correct is on and 1 otherwise; a second round exists only if
\* self_correct is true.  Before the first round is recorded there is none.
C3_RoundsBounded ==
    /\ cr_state \in { "Critiqued", "Improving", "Terminal" } =>
          Len(rounds) \in { 1, 2 }
    /\ cr_state = "Draft" => Len(rounds) \in { 0, 1 }
    /\ cr_state # "Idle" =>
          /\ Len(rounds) <= max_rounds
          /\ max_rounds = IF self_correct THEN 2 ELSE 1
    /\ Len(rounds) >= 2 => self_correct
    /\ \A i \in DOMAIN rounds : rounds[i].round = i

\* a session that ended with two rounds, and one that ended with one
C3_Witness ==
    /\ cr_state = "Terminal"
    /\ self_correct
    /\ Len(rounds) = 2

ComboIndex(i) ==
    LET z == i - 1
        lo == Len(operations)
        lk == Len(top_k_values)
        ls == Len(similarity_methods)
        le == Len(embedding_models)
    IN  [ o |-> (z % lo) + 1,
          k |-> ((z \div lo) % lk) + 1,
          s |-> ((z \div (lo * lk)) % ls) + 1,
          e |-> ((z \div (lo * lk * ls)) % le) + 1,
          q |-> (z \div (lo * lk * ls * le)) + 1 ]

ExpectedSuccess(i) ==
    LET c == ComboIndex(i)
        op == operations[c.o]
        t == IF "type" \in DOMAIN op THEN op.type ELSE "ask"
    IN  [ status |-> "success",
          question_idx |-> c.q - 1,
          question |-> questions[c.q],
          configuration |->
              [ operation |-> t,
                similarity_method |-> similarity_methods[c.s],
                embedding_model |-> IF embedding_models[c.e] = None
                                    THEN << "default" >> ELSE embedding_models[c.e],
                top_k |-> top_k_values[c.k] ],
          stored |-> IF t = "ask" THEN "answer+metrics"
                     ELSE IF t = "compare" THEN "answers+metrics"
                     ELSE IF t = "critique" THEN "answer+rounds+metrics"
                     ELSE "nothing",
          run_number |-> i,
          total_runs |-> total_runs ]

ExpectedFailed(i) ==
    LET c == ComboIndex(i)
    IN  [ run_number |-> i,
          total_runs |-> total_runs,
          question_idx |-> c.q - 1,
          question |-> questions[c.q],
          error |-> "provider error",
          status |-> "failed" ]

ListSizeProduct ==
    Len(questions) * Len(embedding_models) * Len(similarity_methods)
        * Len(top_k_values) * Len(operations)

\* C1: run_batch_experiment returns exactly one record per combination of
\* questions x embedding_models x similarity_methods x top_k_values x
\* operations (len(results) = total_runs = the product of the five list
\* sizes, the i-th record being the i-th combination's), and in the returned
\* metadata total_runs = successful_runs + failed_runs, whatever runs raise.
C1_OneRecordPerCombination ==
    b_pc = "returned" =>
        /\ Len(results) = ListSizeProduct
        /\ total_runs = ListSizeProduct
        /\ \A i \in DOMAIN results :
              /\ results[i].run_number = i
              /\ results[i].question = questions[ComboIndex(i).q]
              /\ results[i].status = "success" =>
                    results[i].configuration = ExpectedSuccess(i).configuration
        /\ experiment_metadata.total_runs = Len(results)
        /\ experiment_metadata.total_runs =
              experiment_metadata.successful_runs + experiment_metadata.failed_runs

\* the spec's example: 2 questions x 2 methods x 1 top_k x 1 operation gives
\* 4 records, here with both outcomes among them
C1_Witness ==
    /\ b_pc = "returned"
    /\ Len(questions) = 2 /\ Len(similarity_methods) = 2
    /\ Len(top_k_values) = 1 /\ Len(operations) = 1 /\ Len(embedding_models) = 1
    /\ Len(results) = 4
    /\ experiment_metadata.successful_runs = 3
    /\ experiment_metadata.failed_runs = 1

\* C2: an exception raised by a run becomes a record with status "failed"
\* and the error text; the batch never raises because of it, every later
\* combination is still executed, and every record is what its own
\* combination and its own outcome give, whatever the other runs did.
C2_FailureIsolated ==
    /\ b_pc # "raised"
    /\ b_pc # "stalled" => Len(results) = run_count
    /\ b_pc = "loop" => run_count < total_runs
    /\ b_pc \in { "summarize", "returned" } => run_count = total_runs
    /\ \A i \in DOMAIN results :
          IF results[i].status = "failed"
          THEN results[i] = ExpectedFailed(i)
          ELSE results[i] = ExpectedSuccess(i)

\* a failed run followed by a run that succeeded, in a batch that returned
C2_Witness ==
    /\ b_pc = "returned"
    /\ \E i, j \in DOMAIN results :
          /\ i < j
          /\ results[i].status = "failed"
          /\ results[j].status = "success"


\* ------------------------------------------------------------------- C5
\* C5: on the values calculate_faithfulness_metrics returns, rounded to three
\* decimals, hallucination_risk + evidence_coverage is 1.0 for every answer
\* (in thousandths: the two add up to 1000).
C5_RiskPlusCoverageIsOne ==
    fm_pc = "returned" =>
        fm_metrics.hallucination_risk + fm_metrics.evidence_coverage = 1000

\* ------------------------------------------------------------------- C6
\* C6: on the values calculate_retrieval_quality_metrics returns, rounded to
\* three decimals, diversity_score + chunk_redundancy is 1.0 for every
\* retrieved chunk set, empty, of one chunk or of many; with fewer than two
\* chunks chunk_redundancy is 0 (in thousandths: the two add up to 1000).
C6_DiversityPlusRedundancyIsOne ==
    rq_pc = "returned" =>
        /\ rq_metrics.diversity_score + rq_metrics.chunk_redundancy = 1000
        /\ Len(rq_chunks) < 2 => rq_metrics.chunk_redundancy = 0

\* ------------------------------------------------------------ C7, C8, C9
\* a call of get_chunks_for_all_methods that returned a ranking (not an
\* error), and the pool it ranked: the chunks of the store (the records
\* with an embedding vector) that pass the document filter
Ranked == rk_pc = "returned" /\ "top_k_by_method" \in DOMAIN rk_result
FilteredPool ==
    SelectSeq(store, LAMBDA r : /\ IsList(r.embedding)
                                /\ rk_args.doc_name # None => r.doc_name = rk_args.doc_name[1])

\* C7: the method agreement matrix get_chunks_for_all_methods returns is
\* symmetric: method_agreement[m1][m2] = method_agreement[m2][m1] for every
\* pair of methods, for every pool and every k (k <= 0 included).
C7_AgreementSymmetric ==
    Ranked =>
        \A m1, m2 \in Range(Methods) :
            rk_result.retrieval_details.method_agreement[m1][m2]
                = rk_result.retrieval_details.method_agreement[m2][m1]

\* two methods whose top-k sets overlap in part
C7_Witness ==
    /\ Ranked
    /\ rk_args.k > 0
    /\ \E m1, m2 \in Range(Methods) :
          /\ rk_result.retrieval_details.method_agreement[m1][m2] > 0
          /\ rk_result.retrieval_details.method_agreement[m1][m2] < 1000

\* C8: the diagonal of the method agreement matrix is 100 (1000 tenths) for
\* every method, every non-empty pool and every k >= 1.
C8_DiagonalIsHundred ==
    Ranked /\ rk_args.k >= 1 =>
        \A m \in Range(Methods) :
            rk_result.retrieval_details.method_agreement[m][m] = 1000

\* C9: for each of the five methods and every k >= 0, the list returned is
\* the min(k, pool size) highest-scoring chunks of the filtered pool, in
\* non-increasing order of that method's score, ranked 1, 2, ... in list
\* order, primary_score being all_scores[method] and all_scores holding the
\* scores of the five methods.
C9_TopKPerMethod ==
    Ranked /\ rk_args.k >= 0 =>
        LET pool == FilteredPool
            scored == rk_result.all_chunks_with_scores
            Entry(e) == [ doc_name |-> e.doc_name, text |-> e.text,
                          all_scores |-> e.all_scores, chunk_length |-> e.chunk_length ]
        IN  /\ Len(scored) = Len(pool)
            /\ \A i \in DOMAIN pool :
                  /\ scored[i].text = pool[i].text
                  /\ scored[i].doc_name = pool[i].doc_name
                  /\ scored[i].all_scores =
                         calculate_all_similarities(embed_query(rk_args.query_text), pool[i].embedding,
                                                    pool[i].text, rk_args.query_text,
                                                    rk_args.normalize_vectors)
            /\ \A m \in Range(Methods) :
                  LET top == rk_result.top_k_by_method[m]
                  IN  /\ Len(top) = Min(rk_args.k, Len(pool))
                      /\ \A i \in DOMAIN top :
                            /\ top[i].rank = i
                            /\ top[i].primary_score = top[i].all_scores[m]
                            /\ DOMAIN top[i].all_scores = Range(Methods)
                            /\ Cardinality({ j \in DOMAIN top : Entry(top[j]) = Entry(top[i]) })
                                   <= Cardinality({ j \in DOMAIN scored : scored[j] = Entry(top[i]) })
                            /\ i > 1 => ~Below(top[i - 1].primary_score, top[i].primary_score)
                            /\ Cardinality({ j \in DOMAIN scored :
                                               Below(top[i].primary_score, scored[j].all_scores[m]) })
                                   = Cardinality({ j \in DOMAIN top :
                                                     Below(top[i].primary_score, top[j].primary_score) })

\* the example: query vector [1, 0] over the chunk vectors [1, 0], [0, 1],
\* [-1, 0], k = 2: under cosine, chunk 0 then chunk 1
C9_Witness ==
    /\ Ranked
    /\ rk_args.k = 2
    /\ rk_args.doc_name = None
    /\ embed_query(rk_args.query_text) = Vector(<< 1, 0 >>)
    /\ Len(store) = 3
    /\ store[1].embedding = Vector(<< 1, 0 >>)
    /\ store[2].embedding = Vector(<< 0, 1 >>)
    /\ store[3].embedding = Vector(<< -1, 0 >>)
    /\ Len(rk_result.top_k_by_method["cosine"]) = 2
    /\ rk_result.top_k_by_method["cosine"][1].text = store[1].text
    /\ rk_result.top_k_by_method["cosine"][1].primary_score = FloatOfInt(1)
    /\ rk_result.top_k_by_method["cosine"][2].text = store[2].text
    /\ rk_result.top_k_by_method["cosine"][2].primary_score = FloatOfInt(0)

\* ------------------------------------------------------------------ C10
\* C10: reverse_order applied twice returns the original order: when the
\* chunks_used of a reverse_order call are fed back into reverse_order, the
\* chunks_used returned are the chunks of the first call's original list in
\* the same sequence (text, doc_name and score, with the defaults of the
\* projection, and the rank of every chunk that carried one).
C10_ReverseTwiceIsOriginal ==
    /\ cf_pc = "returned"
    /\ cf_prev # None
    /\ cf_prev.counterfactual_type = "reverse_order"
    /\ cf_args.counterfactual_type = "reverse_order"
    => LET original == cf_prev.original_chunks
           twice == cf_result.chunks_used
       IN  /\ Len(twice) = Len(original)
           /\ \A i \in DOMAIN original :
                 /\ twice[i].text = DictGet(original[i], "text", << >>)
                 /\ twice[i].doc_name = DictGet(original[i], "doc_name", "Unknown")
                 /\ twice[i].score = DictGet(original[i], "score", 0)
                 /\ "rank" \in DOMAIN original[i] => twice[i].rank = original[i].rank

\* a list of three chunks, not all the same, reversed and reversed again
C10_Witness ==
    /\ cf_pc = "returned"
    /\ cf_prev # None
    /\ cf_prev.counterfactual_type = "reverse_order"
    /\ cf_args.counterfactual_type = "reverse_order"
    /\ Len(cf_prev.original_chunks) = 3
    /\ cf_prev.original_chunks[1] # cf_prev.original_chunks[3]
    /\ cf_args.original_chunks[1].text = DictGet(cf_prev.original_chunks[3], "text", << >>)
    /\ cf_result.chunks_used[1].text = DictGet(cf_prev.original_chunks[1], "text", << >>)
    /\ cf_result.chunks_used[1].text # cf_result.chunks_used[3].text

\* ------------------------------------------------------------------ C11
\* a remove_top call that returned, on a list of at least one chunk
RemoveTopReturned ==
    /\ cf_pc = "returned"
    /\ cf_args.counterfactual_type = "remove_top"
    /\ Len(cf_args.original_chunks) >= 1

\* the chunks returned are the original list without its first chunk, in
\* order, and chunk_overlap is (n - 1) / n to three decimals
RemoveTopAsStated ==
    LET original == cf_args.original_chunks
        n == Len(original)
    IN  /\ cf_result.original_chunks_count = n
        /\ cf_result.counterfactual_chunks_count = n - 1
        /\ Len(cf_result.chunks_used) = n - 1
        /\ \A i \in 1..(n - 1) :
              /\ cf_result.chunks_used[i].text = DictGet(original[i + 1], "text", << >>)
              /\ cf_result.chunks_used[i].doc_name = DictGet(original[i + 1], "doc_name", "Unknown")
              /\ cf_result.chunks_used[i].score = DictGet(original[i + 1], "score", 0)
        /\ cf_result.metrics.chunk_overlap = RoundDecimal(FloatOfRatio(n - 1, n), 1000)

\* no two chunks of the original list carry the same text
DistinctTexts(chunks) ==
    \A i, j \in DOMAIN chunks :
        i # j => DictGet(chunks[i], "text", << >>) # DictGet(chunks[j], "text", << >>)

\* C11 as stated: remove_top on any original list of n >= 1 chunks yields
\* the n - 1 chunks after the first, order preserved, and chunk_overlap =
\* (n - 1) / n.
C11_RemoveTopOverlap == RemoveTopReturned => RemoveTopAsStated

\* C11 as amended: remove_top on any original list of n >= 1 chunks whose
\* texts are pairwise distinct yields the n - 1 chunks after the first, order
\* preserved, and chunk_overlap = (n - 1) / n rounded to three decimals.
C11_RemoveTopOverlapDistinct ==
    RemoveTopReturned /\ DistinctTexts(cf_args.original_chunks) => RemoveTopAsStated

\* three chunks of three texts: two are left and chunk_overlap is 0.667
C11_Witness ==
    /\ RemoveTopReturned
    /\ DistinctTexts(cf_args.original_chunks)
    /\ Len(cf_args.original_chunks) = 3
    /\ Len(cf_result.chunks_used) = 2
    /\ cf_result.chunks_used[1].text = DictGet(cf_args.original_chunks[2], "text", << >>)
    /\ cf_result.metrics.chunk_overlap = 667

\* ------------------------------------------------------------------ C12
\* the documents with a record in the store
StoredDocuments == { store[i].doc_name : i \in DOMAIN store }

\* C12: get_chunks_for_all_methods returns an explicit error result, and
\* does not raise, when the store is empty ('No documents available') and
\* when the document filter matches no record of a non-empty store (an
\* error naming the document); the result then holds the error and nothing
\* else: no ranking, no statistics, no agreement matrix.
C12_ErrorResults ==
    rk_pc \in { "returned", "raised" } =>
        /\ store = << >> =>
              /\ rk_pc = "returned"
              /\ rk_result = [ error |-> "No documents available" ]
        /\ store # << >> /\ rk_args.doc_name # None /\ rk_args.doc_name[1] \notin StoredDocuments =>
              /\ rk_pc = "returned"
              /\ rk_result = [ error |-> "No chunks for document: " \o rk_args.doc_name[1] ]

\* a store that holds a.pdf only, asked for b.pdf
C12_Witness ==
    /\ rk_pc = "returned"
    /\ StoredDocuments = { "a.pdf" }
    /\ rk_args.doc_name = Some("b.pdf")
    /\ rk_result = [ error |-> "No chunks for document: b.pdf" ]

\* ------------------------------------------------------------------ C13
\* C13: a ranking request with k <= 0 is invalid input:
\* get_chunks_for_all_methods rejects k = 0 and negative k, and returns no
\* ranking, truncated list or agreement matrix computed for such a k.
C13_NonPositiveKRejected ==
    rk_pc \in { "returned", "raised" } /\ rk_args.k <= 0 =>
        /\ "top_k_by_method" \notin DOMAIN rk_result
        /\ "retrieval_details" \notin DOMAIN rk_result

\* ------------------------------------------------------------------ C16
\* C16: ranking never raises on bad data: for every non-empty pool, the
\* pools where some or all records carry no usable embedding vector
\* included, get_chunks_for_all_methods returns a full result or an explicit
\* error result.
C16_RankingNeverRaises ==
    rk_pc \in { "returned", "raised" } /\ store # << >> =>
        /\ rk_pc = "returned"
        /\ "error" \in DOMAIN rk_result \/ "top_k_by_method" \in DOMAIN rk_result

\* ------------------------------------------------------------------ C15
\* a record scored against a query vector of another dimension
MismatchScored == rk_pc = "scored" /\ Len(rk_args.a) # Len(rk_args.b)

\* in the lists of neg_l2 and neg_l1 no chunk of another dimension than
\* the query's stands before a chunk of the query's dimension, and where
\* one is listed every chunk of the query's dimension is listed too
MismatchedRankLast ==
    LET query_embedding == embed_query(rk_args.query_text)
        Mismatched(e) == \E i \in DOMAIN FilteredPool :
                            /\ FilteredPool[i].doc_name = e.doc_name
                            /\ FilteredPool[i].text = e.text
                            /\ Len(FilteredPool[i].embedding) # Len(query_embedding)
    IN  \A m \in { "neg_l2", "neg_l1" } :
            LET top == rk_result.top_k_by_method[m]
            IN  /\ \A i, j \in DOMAIN top :
                      i < j => ~(Mismatched(top[i]) /\ ~Mismatched(top[j]))
                /\ (\E i \in DOMAIN top : Mismatched(top[i])) =>
                      Cardinality({ i \in DOMAIN top : ~Mismatched(top[i]) })
                          = Cardinality({ i \in DOMAIN FilteredPool :
                                            Len(FilteredPool[i].embedding) = Len(query_embedding) })

\* C15 as stated: on a dimension mismatch no scoring function raises; cosine
\* and dot return exactly 0.0 and neg_l2 and neg_l1 return -1e9 in every
\* implementation of the methods (qa.py, vector_store.py, relations.py), and
\* so under neg_l2 and neg_l1 every mismatched chunk ranks after every chunk
\* of the query's dimension.
C15_MismatchSentinels ==
    /\ MismatchScored =>
          /\ rk_result.cosine = Zero
          /\ rk_result.dot = Zero
          /\ rk_result.neg_l2 = MismatchPenalty
          /\ rk_result.neg_l1 = MismatchPenalty
    /\ Ranked => MismatchedRankLast

\* C15 as amended: on a dimension mismatch no scoring function raises; cosine
\* and dot return exactly 0.0 in every implementation, neg_l2 and neg_l1
\* return -1e9 in qa.py and vector_store.py and negative infinity in
\* relations.py, and in the ranking of get_chunks_for_all_methods under neg_l2
\* and neg_l1 every mismatched chunk ranks after every chunk of the query's
\* dimension (whose distance from the query is below 1e9).
C15_MismatchSentinelsPerModule ==
    /\ MismatchScored =>
          /\ rk_result.cosine = Zero
          /\ rk_result.dot = Zero
          /\ rk_result.neg_l2 = IF rk_args.module = "relations" THEN NegativeInfinity ELSE MismatchPenalty
          /\ rk_result.neg_l1 = IF rk_args.module = "relations" THEN NegativeInfinity ELSE MismatchPenalty
    /\ Ranked => MismatchedRankLast

\* a ranking over a.pdf and d.pdf: the chunk of d.pdf, of three dimensions,
\* is the last of three under neg_l1, with the score -1e9
C15_Witness ==
    /\ Ranked
    /\ rk_args.k = 3
    /\ StoredDocuments = { "a.pdf", "d.pdf" }
    /\ store[1].doc_name = "d.pdf"
    /\ Len(rk_result.top_k_by_method["neg_l1"]) = 3
    /\ rk_result.top_k_by_method["neg_l1"][3].doc_name = "d.pdf"
    /\ rk_result.top_k_by_method["neg_l1"][3].primary_score = MismatchPenalty
    /\ rk_result.top_k_by_method["neg_l1"][3].all_scores["cosine"] = Zero

\* ------------------------------------------------------------------ C14
\* C14: an unknown operation is an input error in the batch harness: when an
\* operation's type is not one of ask, compare, critique, no run of that
\* operation is recorded with status 'success'.
C14_UnknownOperationRejected ==
    \A i \in DOMAIN results :
        results[i].status = "success" =>
            results[i].configuration.operation \in { "ask", "compare", "critique" }

\* ------------------------------------------------------------------ C19
\* C19: a stalled text-generation call blocks only its own run: when the
\* provider call of one run never returns, every other run of the batch is
\* still eventually completed and recorded in the results (all of the
\* total_runs runs but the stalled one).
C19_StallBlocksOnlyItsRun ==
    (b_pc = "stalled") ~> (Len(results) = total_runs - 1)

\* ------------------------------------------------------------------ C20
\* the runs recorded as successful, in the order of the results
SuccessfulIndices == { i \in DOMAIN results : results[i].status = "success" }

\* C20: the tabular export of a batch report holds exactly one row per
\* successful run and none for a failed run (the row count is
\* successful_runs), in the order of the runs, each row carrying its own
\* run's run_number, question, operation, similarity method and top_k, for
\* any mix of ask, compare and critique runs.
C20_CsvOneRowPerSuccess ==
    b_pc = "exported" =>
        /\ Len(csv_rows) = experiment_metadata.successful_runs
        /\ Len(csv_rows) = Cardinality(SuccessfulIndices)
        /\ \A i \in SuccessfulIndices :
              LET row == csv_rows[Cardinality({ j \in SuccessfulIndices : j <= i })]
                  c == ComboIndex(i)
              IN  /\ row.run_number = i
                  /\ row.question_idx = c.q - 1
                  /\ row.question = questions[c.q]
                  /\ row.operation = OperationType(operations[c.o])
                  /\ row.similarity_method = similarity_methods[c.s]
                  /\ row.top_k = top_k_values[c.k]

\* a report of compare and critique runs on two questions of which the
\* second run failed: four records, three rows
C20_Witness ==
    /\ b_pc = "exported"
    /\ Len(results) = 4
    /\ Len(operations) = 2
    /\ OperationType(operations[1]) = "compare"
    /\ OperationType(operations[2]) = "critique"
    /\ results[2].status = "failed"
    /\ Len(csv_rows) = 3
    /\ csv_rows[2].run_number = 3
    /\ csv_rows[2].operation = "compare"

\* ------------------------------------------------------------------ C17
\* some chunk shares more than three tenths of the sentence's tokens, or a
\* phrase, with the sentence
LexicallySupported(sentence, retrieved_chunks) ==
    \E i \in DOMAIN retrieved_chunks :
        LET chunk_text == DictGet(retrieved_chunks[i], "text", << >>)
            sentence_tokens == _tokenize(LowerText(sentence))
            chunk_tokens == _tokenize(LowerText(chunk_text))
        IN  \/ /\ sentence_tokens # {}
               /\ chunk_tokens # {}
               /\ 10 * Cardinality(sentence_tokens \cap chunk_tokens) > 3 * Cardinality(sentence_tokens)
            \/ _extract_matching_phrases(sentence, chunk_text, MinPhraseLength, 0, << >>) # << >>

\* C17: when semantic scoring is unavailable, calculate_faithfulness_metrics
\* returns (it never raises) a lexical-only signal: confidence_semantic is 0
\* for every sentence, and a sentence is supported exactly when some chunk
\* has a lexical overlap above 0.3 with it or shares a quote with it;
\* evidence_coverage is the share of such sentences.
C17_LexicalOnlyFallback ==
    fm_pc = "returned" /\ fm_model = "unavailable" =>
        LET support == fm_metrics.sentence_support
            supported == { i \in DOMAIN support : LexicallySupported(support[i].sentence, fm_chunks) }
        IN  /\ \A i \in DOMAIN support :
                  /\ support[i].confidence_semantic = 0
                  /\ support[i].supported <=> i \in supported
                  /\ \A j \in DOMAIN support[i].supporting_chunks :
                        support[i].supporting_chunks[j].semantic_similarity = 0
            /\ fm_metrics.supported_sentences = Cardinality(supported)
            /\ fm_metrics.total_sentences = Len(support)
            /\ Len(support) > 0 =>
                  fm_metrics.evidence_coverage
                      = RoundDecimal(FloatOfRatio(Cardinality(supported), Len(support)), 1000)

\* the example: 'Paris is the capital of France. It is sunny today.' with
\* the one chunk 'Paris is the capital of France' and no transformer
C17_Witness ==
    /\ fm_pc = "returned"
    /\ fm_model = "unavailable"
    /\ fm_answer = << S_Paris, S_Sunny >>
    /\ fm_chunks = << C_paris >>
    /\ Len(fm_metrics.sentence_support) = 2
    /\ fm_metrics.sentence_support[1].supported
    /\ ~fm_metrics.sentence_support[2].supported
    /\ fm_metrics.sentence_support[1].confidence_semantic = 0
    /\ fm_metrics.evidence_coverage = 500
    /\ fm_metrics.hallucination_risk = 500

\* ------------------------------------------------------------------ C18
\* the provider call failed, or the response holds no object to read: no
\* opening brace at all, the empty object, a word of prose inside the
\* object, or anything else the extraction gives up on
NotStructured(completion) ==
    \/ "raised" \in DOMAIN completion
    \/ /\ "raw" \in DOMAIN completion
       /\ \/ \A i \in DOMAIN completion.raw : "{" \notin Range(completion.raw[i])
          \/ completion.raw = << JsonEmpty >>
          \/ \E ts \in JsonTexts : \E i \in 1..(Len(ts) - 1) : completion.raw = << WithToken(ts, i, "Sure") >>
          \/ ~Truthy(_extract_json_from_response(completion.raw))

\* the first fifty words of the answer, followed by '...' when it has more
TruncatedEcho(summary, answer) ==
    IF Len(answer) <= 50 THEN summary = answer
    ELSE /\ Len(summary) = 51
         /\ \A i \in 1..50 : summary[i] = answer[i]
         /\ summary[51] = "..."

RECURSIVE MaxOverChunks(_, _, _, _, _)
MaxOverChunks(sentence, retrieved_chunks, model, idx, best) ==
    IF idx >= Len(retrieved_chunks) THEN best
    ELSE LET cs == ChunkSupport(sentence, DictGet(retrieved_chunks[idx + 1], "text", << >>), model)
         IN  MaxOverChunks(sentence, retrieved_chunks, model, idx + 1,
                 FloatMax(best, FloatMax(cs.lexical_overlap, cs.semantic_similarity)))

\* some chunk passes the support threshold for the sentence
SomeChunkSupports(sentence, retrieved_chunks, model) ==
    \E j \in DOMAIN retrieved_chunks :
        LET cs == ChunkSupport(sentence, DictGet(retrieved_chunks[j], "text", << >>), model)
        IN  \/ FloatGreater(cs.lexical_overlap, FloatOfRatio(3, 10))
            \/ FloatGreater(cs.semantic_similarity, FloatOfRatio(1, 2))
            \/ cs.potential_quotes # << >>

\* C21: a sentence is marked supported if and only if, for some chunk, the
\* lexical overlap is above 0.3 or the semantic similarity above 0.5 or a
\* quote is found; and its reported confidence is the maximum of lexical
\* overlap and semantic similarity over all chunks of the retrieved set,
\* whether or not the sentence is supported.
C21_SupportAndConfidence ==
    fm_pc = "returned" =>
        \A i \in DOMAIN fm_metrics.sentence_support :
            LET entry == fm_metrics.sentence_support[i]
            IN  /\ entry.supported <=> SomeChunkSupports(entry.sentence, fm_chunks, fm_model)
                /\ entry.confidence
                       = RoundDecimal(MaxOverChunks(entry.sentence, fm_chunks, fm_model, 0, ZeroFloat), 1000)

\* ------------------------------------------------------------------ C22
\* jaccard of the texts' tokens, the texts lowercased and split on every
\* character that is no word character
WordJaccard(q_text, c_text) ==
    LET q_tokens == _tokenize(LowerText(q_text))
        c_tokens == _tokenize(LowerText(c_text))
    IN  IF q_tokens = {} \/ c_tokens = {} THEN Zero
        ELSE [ neg |-> FALSE,
               mag |-> FloatOfRatio(Cardinality(q_tokens \cap c_tokens), Cardinality(q_tokens \cup c_tokens)) ]

\* C22: the hybrid score is 0.7 * cosine + 0.3 * jaccard(tokenize(query),
\* tokenize(chunk)), tokenize lowercasing and splitting on non-word
\* characters, so two chunk texts that differ only in case or in the
\* punctuation attached to words get the same hybrid score when their
\* cosines are equal; the Jaccard term is 0 if either token set is empty.
C22_HybridIgnoresCaseAndPunctuation ==
    Ranked =>
        LET scored == rk_result.all_chunks_with_scores
        IN  /\ \A i \in DOMAIN scored :
                  scored[i].all_scores.hybrid
                      = Plus(Times([ neg |-> FALSE, mag |-> FloatOfRatio(7, 10) ], scored[i].all_scores.cosine),
                             Times([ neg |-> FALSE, mag |-> FloatOfRatio(3, 10) ],
                                   WordJaccard(rk_args.query_text, scored[i].text)))
            /\ \A i, j \in DOMAIN scored :
                  /\ _tokenize(LowerText(scored[i].text)) = _tokenize(LowerText(scored[j].text))
                  /\ scored[i].all_scores.cosine = scored[j].all_scores.cosine
                  => scored[i].all_scores.hybrid = scored[j].all_scores.hybrid

\* ------------------------------------------------------------------ C24
\* the similarity of the chunks i and j (from 0) of the list scored
PairSimilarity(i, j) ==
    _calculate_text_similarity(DictGet(rq_chunks[i + 1], "text", << >>), DictGet(rq_chunks[j + 1], "text", << >>))
\* the pairs of chunks whose similarity is above 0.6
RedundantPairs ==
    { p \in (0..(Len(rq_chunks) - 1)) \X (0..(Len(rq_chunks) - 1)) :
          p[1] < p[2] /\ FloatGreater(PairSimilarity(p[1], p[2]), FloatOfRatio(3, 5)) }

\* C24: redundancy_details holds only pairs of chunks whose similarity is
\* above 0.6 and, when more than 5 pairs qualify, the 5 pairs of highest
\* similarity among them.
C24_TopFiveRedundantPairs ==
    rq_pc = "returned" =>
        LET details == rq_metrics.redundancy_details
            listed == { << details[d].chunk_1, details[d].chunk_2 >> : d \in DOMAIN details }
        IN  /\ listed \subseteq RedundantPairs
            /\ Len(details) = Min(5, Cardinality(RedundantPairs))
            /\ Cardinality(listed) = Len(details)
            /\ \A p \in RedundantPairs \ listed : \A q \in listed :
                  ~FloatGreater(PairSimilarity(p[1], p[2]), PairSimilarity(q[1], q[2]))

\* ------------------------------------------------------------------ C23
\* the word n-grams of at least five words that the sentence shares with
\* some chunk of the retrieved set, as (first word, length)
SharedPhrases(sentence, retrieved_chunks) ==
    { g \in (1..Len(sentence)) \X (5..Len(sentence)) :
          /\ g[1] + g[2] - 1 <= Len(sentence)
          /\ \E j \in DOMAIN retrieved_chunks :
                PhraseIn(SubSeq(LowerText(sentence), g[1], g[1] + g[2] - 1),
                         LowerText(DictGet(retrieved_chunks[j], "text", << >>))) }

\* C23: the quotes retained for a sentence are the longest word n-grams (at
\* least 5 words, at most 15) that the sentence shares with the retrieved
\* chunks, no two of them equal ignoring case, and at most 2 per sentence;
\* the report's extracted_quotes holds at most 3 quotes, each once, in the
\* order in which the sentences first gave them.
C23_LongestSharedPhrases ==
    fm_pc = "returned" =>
        /\ \A s \in DOMAIN fm_metrics.sentence_support :
              LET entry == fm_metrics.sentence_support[s]
                  shared == SharedPhrases(entry.sentence, fm_chunks)
              IN  /\ Len(entry.quotes) <= 2
                  /\ \A q \in DOMAIN entry.quotes :
                        /\ Len(entry.quotes[q]) >= 5
                        /\ Len(entry.quotes[q]) <= 15
                        /\ \E g \in shared : entry.quotes[q] = SubSeq(entry.sentence, g[1], g[1] + g[2] - 1)
                        /\ \A g \in shared : g[2] <= Len(entry.quotes[q])
                  /\ \A q, r \in DOMAIN entry.quotes :
                        q # r => LowerText(entry.quotes[q]) # LowerText(entry.quotes[r])
                  /\ shared # {} => entry.quotes # << >>
        /\ Len(fm_metrics.extracted_quotes) <= 3
        /\ \A q, r \in DOMAIN fm_metrics.extracted_quotes :
              q < r =>
                  /\ fm_metrics.extracted_quotes[q] # fm_metrics.extracted_quotes[r]
                  /\ \E s \in DOMAIN fm_metrics.sentence_support :
                        /\ \E x \in DOMAIN fm_metrics.sentence_support[s].quotes :
                              fm_metrics.sentence_support[s].quotes[x] = fm_metrics.extracted_quotes[q]
                        /\ \A t \in 1..(s - 1) : \A x \in DOMAIN fm_metrics.sentence_support[t].quotes :
                              fm_metrics.sentence_support[t].quotes[x] # fm_metrics.extracted_quotes[r]

\* ------------------------------------------------------------------ C30
\* C30: in every faithfulness report a sentence is marked supported if and
\* only if its supporting_chunks list is non-empty, total_sentences is the
\* number of sentence_support entries, supported_sentences the number of
\* entries marked supported, and 0 <= supported_sentences <= total_sentences.
C30_ReportCounts ==
    fm_pc = "returned" =>
        LET support == fm_metrics.sentence_support
        IN  /\ \A i \in DOMAIN support : support[i].supported <=> support[i].supporting_chunks # << >>
            /\ fm_metrics.total_sentences = Len(support)
            /\ fm_metrics.supported_sentences = Cardinality({ i \in DOMAIN support : support[i].supported })
            /\ 0 <= fm_metrics.supported_sentences
            /\ fm_metrics.supported_sentences <= fm_metrics.total_sentences

\* a report of two sentences, one with a supporting chunk and one without
C30_Witness ==
    /\ fm_pc = "returned"
    /\ fm_model = "dissimilar"
    /\ fm_metrics.total_sentences = 2
    /\ fm_metrics.supported_sentences = 1
    /\ fm_metrics.sentence_support[1].supporting_chunks = << >>
    /\ ~fm_metrics.sentence_support[1].supported
    /\ Len(fm_metrics.sentence_support[2].supporting_chunks) = 2
    /\ fm_metrics.sentence_support[2].supported

\* ------------------------------------------------------------------ C25
\* the call returned a result
CounterfactualReturned == cf_pc = "returned" /\ "metrics" \in DOMAIN cf_result
\* fewer than half of the distinct texts of the original chunks are among
\* the chunks used
OverlapBelowHalf ==
    LET original_texts == { DictGet(c, "text", << >>) : c \in Range(cf_args.original_chunks) }
        counterfactual_texts == { cf_result.chunks_used[i].text : i \in DOMAIN cf_result.chunks_used }
    IN  original_texts = {} \/ 2 * Cardinality(original_texts \cap counterfactual_texts) < Cardinality(original_texts)
\* the answer similarity before it is rounded for the report
AnswerSimilarity ==
    LET semantic == _calculate_semantic_similarity(cf_result.original_answer, cf_result.counterfactual_answer, cf_args.model)
    IN  IF FloatGreater(semantic, ZeroFloat) THEN semantic
        ELSE _calculate_text_similarity(cf_result.original_answer, cf_result.counterfactual_answer)

C26_SemanticWheneverAvailable ==
    CounterfactualReturned =>
        LET m == cf_result.metrics
        IN  IF cf_args.model = "unavailable"
            THEN m.answer_similarity = m.answer_similarity_jaccard
            ELSE m.answer_similarity = m.answer_similarity_semantic

\* ------------------------------------------------------------------ C27
\* C27: a call of run_counterfactual_analysis with a strategy name it does
\* not know ends in the 'Unknown counterfactual type' error with no call of
\* the language model made, no counterfactual chunks built and no result
\* returned.
C27_UnknownTypeFailsFirst ==
    [][ (cf_pc' # "idle" /\ cf_args'.counterfactual_type \notin CounterfactualTypes)
        => /\ cf_pc' = "raised"
           /\ cf_result' = [ raised |-> "ValueError",
                             message |-> "Unknown counterfactual type: " \o cf_args'.counterfactual_type ]
           /\ cf_llm_calls' = << >>
           /\ cf_chunks' = None ]_counterfactualVars

\* the unknown strategy 'semantic_only' on two chunks with no answer passed
\* in: the call that would have had to generate the original answer
C27_Witness ==
    /\ cf_pc = "raised"
    /\ cf_args.counterfactual_type = "semantic_only"
    /\ cf_args.original_answer = None
    /\ Len(cf_args.original_chunks) = 2
    /\ cf_result.raised = "ValueError"
    /\ cf_llm_calls = << >>

\* ------------------------------------------------------------------ C29
\* xs and ys hold the same chunks the same number of times
IsPermutationOf(xs, ys) ==
    /\ Len(xs) = Len(ys)
    /\ \A x \in Range(xs) \cup Range(ys) :
           Cardinality({ i \in DOMAIN xs : xs[i] = x }) = Cardinality({ i \in DOMAIN ys : ys[i] = x })

C28_RecordsInIterationOrder ==
    [][ /\ results' # results =>
              LET n == Len(results')
                  rec == results'[n]
                  c == ComboIndex(n)
              IN  /\ n = Len(results) + 1
                  /\ SubSeq(results', 1, n - 1) = results
                  /\ rec.run_number = n
                  /\ n <= total_runs
                  /\ rec.question_idx = c.q - 1
                  /\ rec.question = questions[c.q]
                  /\ rec.status = "success" =>
                         /\ rec.configuration.similarity_method = similarity_methods[c.s]
                         /\ rec.configuration.top_k = top_k_values[c.k]
                         /\ rec.configuration.operation = OperationType(operations[c.o])
                         /\ rec.configuration.embedding_model =
                                IF IsNone(embedding_models[c.e]) THEN << "default" >>
                                ELSE embedding_models[c.e]
        /\ b_pc' = "returned" =>
              /\ Len(results') = total_runs'
              /\ \A i \in 1..total_runs' : results'[i].run_number = i ]_batchVars

\* a batch of 2 questions x 2 similarity methods that returned: the second
\* record is the first question's with the second method, and failed; the
\* third is the second question's with the first method
C28_Witness ==
    /\ b_pc = "returned"
    /\ Len(questions) = 2 /\ Len(similarity_methods) = 2
    /\ Len(top_k_values) = 1 /\ Len(operations) = 1 /\ Len(embedding_models) = 1
    /\ Len(results) = 4
    /\ results[2].status = "failed"
    /\ results[2].question_idx = 0
    /\ results[2].run_number = 2
    /\ results[3].status = "success"
    /\ results[3].question_idx = 1
    /\ results[3].configuration.similarity_method = similarity_methods[1]
    /\ results[3].run_number = 3

=============================================================================
